---- MODULE Spec2Model ----
(***************************************************************************)
(* Model of the photo-archive web client's virtualised grid:               *)
(*   websrc/util/Cache.ts            class Lru (doubly linked recency list *)
(*                                   plus key map)                         *)
(*   websrc/components/VirtualGrid.ts class VirtualGrid (geometry, element *)
(*                                   pool, materialisation passes)         *)
(* Object references are node ids / handle ids, null is Null.              *)
(***************************************************************************)
EXTENDS Integers, Sequences, FiniteSets, TLC

\* ------------------------------------------------------------------------
\* Bounds of the model
\* ------------------------------------------------------------------------
\* Lru specification: at most MaxNodes linked CacheNode objects, evict counts
\* 0..MaxEvict; keys and values are drawn from LruKeys and LruValues.
MaxNodes == 3
MaxEvict == 3

\* null / undefined
Null == 0

LruKeys == {1, 2, 3}
LruValues == {1, 2}

\* ------------------------------------------------------------------------
\* Small helpers
\* ------------------------------------------------------------------------
Min(a, b) == IF a < b THEN a ELSE b
Max(a, b) == IF a > b THEN a ELSE b

Range(f) == {f[x] : x \in DOMAIN f}

\* Map<K, CacheNode>: a function with a growing and shrinking domain.
EmptyMap == [k \in {} |-> Null]
MapHas(m, k) == k \in DOMAIN m
MapGet(m, k) == IF k \in DOMAIN m THEN m[k] ELSE Null
MapSet(m, k, v) == [x \in (DOMAIN m) \cup {k} |-> IF x = k THEN v ELSE m[x]]
MapDelete(m, k) == [x \in (DOMAIN m) \ {k} |-> m[x]]

\* ------------------------------------------------------------------------
\* class CacheNode, class Evicted
\* ------------------------------------------------------------------------
CacheNode(key, value) == [key |-> key, value |-> value, newer |-> Null, older |-> Null]
Evicted(key, value) == [key |-> key, value |-> value]

\* ------------------------------------------------------------------------
\* class Lru.  A cache is [nodes, nodeMap, newest, oldest]: nodes is the heap
\* of CacheNode objects (a sequence indexed by node id), nodeMap maps a key to
\* a node id, newest/oldest are node ids or Null.
\* ------------------------------------------------------------------------
LruNew == [nodes |-> <<>>, nodeMap |-> EmptyMap, newest |-> Null, oldest |-> Null]

LruSize(c) == Cardinality(DOMAIN c.nodeMap)

\* evict(count): the while loop, one iteration per recursion.
RECURSIVE LruEvictLoop(_, _, _)
LruEvictLoop(c, count, evicted) ==
    IF c.oldest # Null /\ count > 0
    THEN LET o == c.oldest
             key == c.nodes[o].key
             value == c.nodes[o].value
             nw == c.nodes[o].newer
             c1 == [c EXCEPT !.oldest = nw]
             c2 == IF nw # Null THEN [c1 EXCEPT !.nodes[nw].older = Null] ELSE c1
             c3 == [c2 EXCEPT !.nodeMap = MapDelete(c2.nodeMap, key)]
         IN LruEvictLoop(c3, count - 1, Append(evicted, Evicted(key, value)))
    ELSE [cache |-> c, evicted |-> evicted]

LruEvict(c, count) == LruEvictLoop(c, count, <<>>)

\* A faulty insert that puts the new value into the node the key already
\* has and links no second node (what C27 must tell from the code).
LruInsertOverwriting(c, key, value) ==
    IF key \in DOMAIN c.nodeMap
    THEN [c EXCEPT !.nodes[c.nodeMap[key]].value = value]
    ELSE LET id == Len(c.nodes) + 1
             node == CacheNode(key, value)
         IN IF c.newest = Null
            THEN [c EXCEPT !.nodes = Append(c.nodes, node),
                           !.nodeMap = MapSet(c.nodeMap, key, id),
                           !.newest = id,
                           !.oldest = id]
            ELSE [c EXCEPT !.nodes = Append([c.nodes EXCEPT ![c.newest].newer = id],
                                            [node EXCEPT !.older = c.newest]),
                           !.newest = id,
                           !.nodeMap = MapSet(c.nodeMap, key, id)]

\* insert(key, value)
LruInsert(c, key, value) ==
    LET id == Len(c.nodes) + 1
        node == CacheNode(key, value)
    IN IF c.newest = Null
       THEN [c EXCEPT !.nodes = Append(c.nodes, node),
                      !.nodeMap = MapSet(c.nodeMap, key, id),
                      !.newest = id,
                      !.oldest = id]
       ELSE [c EXCEPT !.nodes = Append([c.nodes EXCEPT ![c.newest].newer = id],
                                       [node EXCEPT !.older = c.newest]),
                      !.newest = id,
                      !.nodeMap = MapSet(c.nodeMap, key, id)]

\* get(key), branch "node == this.oldest".  A property access on null throws
\* a TypeError and leaves the assignments made so far in place.
LruGetOldest(c, n) ==
    LET nw == c.nodes[n].newer
        c1 == [c EXCEPT !.oldest = nw]
    IN IF nw = Null
       THEN [cache |-> c1, thrown |-> TRUE]
       ELSE LET c2 == [c1 EXCEPT !.nodes[nw].older = Null]
                c3 == [c2 EXCEPT !.nodes[n].older = c2.newest]
                c4 == [c3 EXCEPT !.nodes[n].newer = Null]
            IN IF c4.newest = Null
               THEN [cache |-> c4, thrown |-> TRUE]
               ELSE [cache |-> [c4 EXCEPT !.nodes[c4.newest].newer = n, !.newest = n],
                     thrown |-> FALSE]

\* get(key), branch "else" (a node in the middle of the list).
LruGetMiddle(c, n) ==
    LET od == c.nodes[n].older
        nw == c.nodes[n].newer
    IN IF od = Null
       THEN [cache |-> c, thrown |-> TRUE]
       ELSE LET c1 == [c EXCEPT !.nodes[od].newer = nw]
            IN IF nw = Null
               THEN [cache |-> c1, thrown |-> TRUE]
               ELSE LET c2 == [c1 EXCEPT !.nodes[nw].older = c1.nodes[n].older]
                        c3 == [c2 EXCEPT !.nodes[n].older = c2.newest]
                        c4 == [c3 EXCEPT !.nodes[n].newer = Null]
                    IN IF c4.newest = Null
                       THEN [cache |-> c4, thrown |-> TRUE]
                       ELSE [cache |-> [c4 EXCEPT !.nodes[c4.newest].newer = n,
                                                  !.newest = n],
                             thrown |-> FALSE]

\* A faulty get that returns the value and leaves the node where it is
\* (what C28 must tell from the code).
LruGetPeeking(c, key) ==
    LET n == MapGet(c.nodeMap, key)
    IN IF n = Null
       THEN [cache |-> c, found |-> FALSE, value |-> Null, thrown |-> FALSE]
       ELSE [cache |-> c, found |-> TRUE, value |-> c.nodes[n].value, thrown |-> FALSE]

\* get(key): [cache, found, value, thrown]
LruGet(c, key) ==
    LET n == MapGet(c.nodeMap, key)
    IN IF n = Null
       THEN [cache |-> c, found |-> FALSE, value |-> Null, thrown |-> FALSE]
       ELSE LET r == IF n = c.newest THEN [cache |-> c, thrown |-> FALSE]
                     ELSE IF n = c.oldest THEN LruGetOldest(c, n)
                     ELSE LruGetMiddle(c, n)
            IN [cache |-> r.cache, found |-> ~r.thrown,
                value |-> IF r.thrown THEN Null ELSE c.nodes[n].value,
                thrown |-> r.thrown]

\* delete(key)
LruDelete(c, key) ==
    LET n == MapGet(c.nodeMap, key)
    IN IF n = Null
       THEN c
       ELSE LET nw == c.nodes[n].newer
                c1 == [c EXCEPT !.nodeMap = MapDelete(c.nodeMap, key)]
                c2 == IF nw = Null
                      THEN [c1 EXCEPT !.newest = c1.nodes[n].older]
                      ELSE [c1 EXCEPT !.nodes[nw].older = c1.nodes[n].older]
                od == c2.nodes[n].older
            IN IF od = Null
               THEN [c2 EXCEPT !.oldest = c2.nodes[n].newer]
               ELSE [c2 EXCEPT !.nodes[od].newer = c2.nodes[n].newer]

\* clear()
LruClear(c) == [c EXCEPT !.nodeMap = EmptyMap, !.newest = Null, !.oldest = Null]

\* forEach / verify: the node ids met following older-links from newest.  The
\* walk is cut after one more step than there are nodes: a longer walk is in
\* a cycle and never ends.  LruWalk(c, current, steps) is the walk of at most
\* steps nodes from current: its first half, then the rest from where the
\* first half ended.
RECURSIVE LruWalk(_, _, _)
LruWalk(c, current, steps) ==
    IF current = Null \/ steps = 0 THEN <<>>
    ELSE IF steps = 1 THEN <<current>>
    ELSE LET half == steps \div 2
             visited == LruWalk(c, current, half)
         IN IF Len(visited) < half THEN visited
            ELSE visited \o LruWalk(c, c.nodes[visited[half]].older, steps - half)

LruTraverse(c) == LruWalk(c, c.newest, Len(c.nodes) + 1)

LruTerminates(c) == Len(LruTraverse(c)) <= Len(c.nodes)

\* forEach(f): the (key, value) pairs handed to f, newest first.
LruForEach(c) ==
    LET t == LruTraverse(c)
    IN [i \in 1..Len(t) |-> Evicted(c.nodes[t[i]].key, c.nodes[t[i]].value)]

\* verify(): TRUE when it returns, FALSE when it throws ('oldest not oldest',
\* 'wrong size') or never ends.
LruVerify(c) ==
    LET t == LruTraverse(c)
    IN /\ LruTerminates(c)
       /\ \A i \in 1..Len(t) : c.nodes[t[i]].older = Null => t[i] = c.oldest
       /\ Len(t) = LruSize(c)

\* ------------------------------------------------------------------------
\* Object identity.  Node ids stand for JavaScript object references: only
\* the nodes reachable from the cache's fields exist for the program, and
\* their ids carry no meaning.  LruNormalize drops the unreachable nodes and
\* renumbers the rest (the recency walk first, newest = 1).
\* ------------------------------------------------------------------------
RECURSIVE LruClosure(_, _)
LruClosure(c, s) ==
    LET t == (s \cup {c.nodes[i].older : i \in s} \cup {c.nodes[i].newer : i \in s}) \ {Null}
    IN IF t = s THEN s ELSE LruClosure(c, t)

LruReachable(c) == LruClosure(c, ({c.newest, c.oldest} \cup Range(c.nodeMap)) \ {Null})

\* The integers of s in increasing order.
SetToSeq(s) ==
    [n \in 1..Cardinality(s) |-> CHOOSE x \in s : Cardinality({y \in s : y < x}) = n - 1]

\* The elements of sequence s that are not in seen, each at its first place.
Dedup(s, seen) ==
    LET first == {i \in 1..Len(s) : s[i] \notin seen /\ \A j \in 1..(i - 1) : s[j] # s[i]}
        places == SetToSeq(first)
    IN IF first = 1..Len(s) THEN s ELSE [n \in 1..Len(places) |-> s[places[n]]]

LruNormalize(c) ==
    LET walk == Dedup(LruTraverse(c), {})
        order == walk \o SetToSeq(LruReachable(c) \ Range(walk))
        ren(i) == IF i = Null THEN Null ELSE CHOOSE j \in 1..Len(order) : order[j] = i
    IN IF order = [i \in 1..Len(c.nodes) |-> i]
       THEN c
       ELSE [nodes |-> [j \in 1..Len(order) |->
                           [c.nodes[order[j]] EXCEPT !.newer = ren(@), !.older = ren(@)]],
             nodeMap |-> [k \in DOMAIN c.nodeMap |-> ren(c.nodeMap[k])],
             newest |-> ren(c.newest),
             oldest |-> ren(c.oldest)]

\* ------------------------------------------------------------------------
\* JavaScript numbers.  The grid computes with non-negative integers, and
\* with the two values a division by zero produces: NaN (0 / 0) and Infinity
\* (x / 0, x > 0).  Every finite number of the model is >= 0.
\* ------------------------------------------------------------------------
NaN == -1
Infinity == -2

IsFinite(a) == a >= 0

\* Math.floor(a / b)
JsFloorDiv(a, b) ==
    IF a = NaN \/ b = NaN THEN NaN
    ELSE IF a = Infinity THEN (IF b = Infinity THEN NaN ELSE Infinity)
    ELSE IF b = Infinity THEN 0
    ELSE IF b = 0 THEN (IF a = 0 THEN NaN ELSE Infinity)
    ELSE a \div b

\* Math.ceil(a / b)
JsCeilDiv(a, b) ==
    IF a = NaN \/ b = NaN THEN NaN
    ELSE IF a = Infinity THEN (IF b = Infinity THEN NaN ELSE Infinity)
    ELSE IF b = Infinity THEN 0
    ELSE IF b = 0 THEN (IF a = 0 THEN NaN ELSE Infinity)
    ELSE (a + b - 1) \div b

\* a + b
JsAdd(a, b) ==
    IF a = NaN \/ b = NaN THEN NaN
    ELSE IF a = Infinity \/ b = Infinity THEN Infinity
    ELSE a + b

\* a * b
JsMul(a, b) ==
    IF a = NaN \/ b = NaN THEN NaN
    ELSE IF a = Infinity \/ b = Infinity
         THEN (IF a = 0 \/ b = 0 THEN NaN ELSE Infinity)
    ELSE a * b

\* Math.max(a, b)
JsMax(a, b) ==
    IF a = NaN \/ b = NaN THEN NaN
    ELSE IF a = Infinity \/ b = Infinity THEN Infinity
    ELSE Max(a, b)

\* Math.min(a, b)
JsMin(a, b) ==
    IF a = NaN \/ b = NaN THEN NaN
    ELSE IF a = Infinity THEN b
    ELSE IF b = Infinity THEN a
    ELSE Min(a, b)

\* Math.max(0, a - b)
JsMaxZeroSub(a, b) ==
    IF a = NaN \/ b = NaN THEN NaN
    ELSE IF a = Infinity THEN (IF b = Infinity THEN NaN ELSE Infinity)
    ELSE IF b = Infinity THEN 0
    ELSE Max(0, a - b)

\* a < b, a > b
JsLess(a, b) ==
    IF a = NaN \/ b = NaN THEN FALSE
    ELSE IF a = Infinity THEN FALSE
    ELSE IF b = Infinity THEN TRUE
    ELSE a < b
JsGreater(a, b) == JsLess(b, a)

\* parseInt(value) || 0 of an attribute written by a setter from a
\* non-negative integer, or from NaN ("NaN" does not parse: 0).
ParseAttribute(value) == IF value = NaN THEN 0 ELSE value

\* ------------------------------------------------------------------------
\* VirtualGrid geometry (computeBounds, virtualizeCells)
\* ------------------------------------------------------------------------
PagesCached == 6
BufferRows == 2

\* visibleGridWidth
VisibleGridWidth(rectWidth, cellWidth) == JsMax(1, JsFloorDiv(rectWidth, cellWidth))

\* A faulty visibleGridHeight that adds one row where the code adds two
\* (what C9 must tell from the code).
VisibleGridHeightOneRow(rectHeight, cellHeight) ==
    JsAdd(JsFloorDiv(rectHeight, cellHeight), 1)

\* visibleGridHeight
VisibleGridHeight(rectHeight, cellHeight) == JsAdd(JsFloorDiv(rectHeight, cellHeight), BufferRows)

\* gridRowCount
GridRowCount(count, width) == JsCeilDiv(count, width)

\* pixelHeight
PixelHeight(rows, cellHeight) == JsMul(rows, cellHeight)

\* A faulty capacity of two pages where the code keeps six (what C11 must
\* tell from the code).
MaximumCachedElementCountTwoPages(count, width, height) ==
    JsMin(count, JsMul(width, JsMul(height, 2)))

\* A faulty capacity of one page where the code keeps six (what C4 must tell
\* from the code).
MaximumCachedElementCountOnePage(count, width, height) ==
    JsMin(count, JsMul(width, height))

\* A faulty capacity of six rows where the code keeps six pages (what C34
\* must tell from the code).
MaximumCachedElementCountSixRows(count, width, height) ==
    JsMin(count, JsMul(width, PagesCached))

\* maximumCachedElementCount
MaximumCachedElementCount(count, width, height) ==
    JsMin(count, JsMul(width, JsMul(height, PagesCached)))

\* A faulty gridTop without the rows kept before the visible ones (what C10
\* must tell from the code).
GridTopNoBuffer(scrollTop, cellHeight, height) ==
    JsMaxZeroSub(JsFloorDiv(scrollTop, cellHeight), 0)

\* gridTop
GridTop(scrollTop, cellHeight, height) ==
    JsMaxZeroSub(JsFloorDiv(scrollTop, cellHeight), height)

\* A faulty gridBottom that subtracts the buffer where the code adds it
\* (what C8 must tell from the code).
GridBottomMinusBuffer(scrollBottom, cellHeight, height, rows) ==
    JsMin(rows, JsMaxZeroSub(JsCeilDiv(scrollBottom, cellHeight), height))

\* gridBottom
GridBottom(scrollBottom, cellHeight, height, rows) ==
    JsMin(rows, JsAdd(JsCeilDiv(scrollBottom, cellHeight), height))

\* The rows [WindowTop, WindowBottom) virtualizeCells materialises for grid
\* state s (the fields of the grid, the host's bounding rect and scrollTop).
WindowTop(s) == GridTop(s.scrollTop, s.cellHeight, s.visibleGridHeight)
WindowBottom(s) ==
    GridBottom(s.scrollTop + s.rectHeight, s.cellHeight, s.visibleGridHeight, s.gridRowCount)

\* Faulty loops that do not test itemIndex < itemCount and run to the end
\* of the last row (what C16 must tell from the code).
IndexRangeToRowEnd(top, bottom, width, count) ==
    IF top = NaN \/ bottom = NaN \/ top = Infinity \/ ~JsLess(top, bottom)
       \/ ~IsFinite(width)
    THEN <<>>
    ELSE [i \in 1..(bottom * width - top * width) |-> top * width + i - 1]

\* The item indices the two for loops of virtualizeCells reach, in loop
\* order: y in [gridTop, gridBottom), x in [0, visibleGridWidth), index < count.
\* A NaN bound makes the loop condition false at once; the width is only
\* infinite when there are no rows.
IndexRange(top, bottom, width, count) ==
    IF top = NaN \/ bottom = NaN \/ top = Infinity \/ ~JsLess(top, bottom)
       \/ ~IsFinite(width)
    THEN <<>>
    ELSE [i \in 1..(Min(bottom * width, count) - top * width) |-> top * width + i - 1]

\* Faulty loops that run one row past gridBottom (what C31 must tell from
\* the code).
WindowIndicesOneRowMore(s) ==
    IndexRange(WindowTop(s), JsAdd(WindowBottom(s), 1), s.visibleGridWidth,
               s.virtualElementCount)

WindowIndices(s) ==
    IndexRange(WindowTop(s), WindowBottom(s), s.visibleGridWidth, s.virtualElementCount)

\* ------------------------------------------------------------------------
\* Cell positions (virtualizeCells, Position).  horizontalPadding and left
\* are fractions: <<numerator, denominator>> in lowest terms, <<NaN, 1>>
\* for NaN.
\* ------------------------------------------------------------------------
RECURSIVE Gcd(_, _)
Gcd(a, b) == IF b = 0 THEN a ELSE Gcd(b, a % b)

Fraction(n, d) == <<n \div Gcd(n, d), d \div Gcd(n, d)>>

\* a % b
JsMod(a, b) ==
    IF a = NaN \/ b = NaN \/ a = Infinity \/ b = 0 THEN NaN
    ELSE IF b = Infinity THEN a
    ELSE a % b

\* horizontalPadding.  It is NaN when visibleGridWidth is NaN or Infinity
\* (the width is only infinite when cellWidth is 0, and 0 * Infinity is NaN).
HorizontalPadding(s) ==
    IF ~IsFinite(s.visibleGridWidth) THEN <<NaN, 1>>
    ELSE Fraction(Max(0, s.rectWidth - s.cellWidth * s.visibleGridWidth),
                  s.visibleGridWidth + 1)

\* top = y * cellHeight
CellTop(s, y) == JsMul(y, s.cellHeight)

\* A faulty left that leaves the padding between the columns out (what C23
\* must tell from the code).
CellLeftUnpadded(s, x) ==
    LET pad == HorizontalPadding(s)
    IN IF pad[1] = NaN \/ x = NaN THEN <<NaN, 1>>
       ELSE Fraction(pad[1] + x * s.cellWidth * pad[2], pad[2])

\* left = horizontalPadding + x * (horizontalPadding + cellWidth)
CellLeft(s, x) ==
    LET pad == HorizontalPadding(s)
    IN IF pad[1] = NaN \/ x = NaN THEN <<NaN, 1>>
       ELSE Fraction(pad[1] + x * (pad[1] + s.cellWidth * pad[2]), pad[2])

\* The style of an element nothing has positioned yet.
Unset == -3
NoPosition == [top |-> Unset, left |-> <<Unset, 1>>, width |-> Unset, height |-> Unset]
NoPositions == [h \in {} |-> NoPosition]
PositionOf(placed, h) == IF h \in DOMAIN placed THEN placed[h] ELSE NoPosition

\* style.top = value + 'px' and the like: 'NaNpx' and 'Infinitypx' are no CSS
\* lengths, and the host ignores the assignment.
SetPx(old, value) == IF IsFinite(value) THEN value ELSE old
SetPxFraction(old, value) == IF IsFinite(value[1]) THEN value ELSE old

\* Position.absolute(cell).top(..).left(..).width(..).height(..) for the cell
\* in row y, column x: the style it leaves, given the style the cell had.
Positioned(s, old, y, x) ==
    [top |-> SetPx(old.top, CellTop(s, y)),
     left |-> SetPxFraction(old.left, CellLeft(s, x)),
     width |-> SetPx(old.width, s.cellWidth),
     height |-> SetPx(old.height, s.cellHeight)]

\* ------------------------------------------------------------------------
\* State
\* ------------------------------------------------------------------------
VARIABLES
    lru,            \* an Lru<number, number> driven directly by its callers
    lruPrev,        \* the same cache before the last call
    lruTouched,     \* live keys by the time of their last insert or get, oldest first
    lruTouchedPrev, \* lruTouched before the last call
    lruOp,          \* the last call: [name, key, value, count]
    lruRet,         \* what the last call returned
    lruPrevGet,     \* k when the call before the last one was a get(k) that hit, else Null
    lruDup          \* TRUE once insert was called with a key that was in the map

lruVars == <<lru, lruPrev, lruTouched, lruTouchedPrev, lruOp, lruRet, lruPrevGet, lruDup>>

VARIABLES
    elementCache,               \* VirtualGrid.elementCache
    visibleGridWidth,           \* columns that fit
    visibleGridHeight,          \* rows that fit, plus two
    gridRowCount,               \* rows in total
    maximumCachedElementCount,  \* pool capacity
    renderer,                   \* the installed VirtualGridRenderer
    cellWidth,                  \* _cellWidth
    cellHeight,                 \* _cellHeight
    virtualElementCount,        \* _virtualElementCount
    resizeListening,            \* onWindowResizeHandler is registered on window
    connected,                  \* host: the element is in the document
    rectWidth,                  \* host: getBoundingClientRect().width
    rectHeight,                 \* host: getBoundingClientRect().height
    scrollTop,                  \* host: viewport.scrollTop
    sizerHeight,                \* host: viewportSizer.style.height in px
    children,                   \* host: the handles appended to the viewport
    positions,                  \* host: style.top/left/width/height of each handle
    log                         \* the last event and the calls its handler made

gridVars == <<elementCache, visibleGridWidth, visibleGridHeight, gridRowCount,
              maximumCachedElementCount, renderer, cellWidth, cellHeight,
              virtualElementCount, resizeListening, connected, rectWidth, rectHeight,
              scrollTop, sizerHeight, children, positions, log>>

VARIABLES
    geometry        \* the grid's arithmetic alone: the fields and host values it reads and sets

geoVars == <<geometry>>

vars == <<lruVars, gridVars, geoVars>>

\* ------------------------------------------------------------------------
\* The Lru driven call by call
\* ------------------------------------------------------------------------
NoRet == [found |-> FALSE, value |-> Null, evicted |-> <<>>, thrown |-> FALSE]
Op(name, key, value, count) == [name |-> name, key |-> key, value |-> value, count |-> count]

SeqRemove(s, k) == SelectSeq(s, LAMBDA x : x # k)
Touch(s, k) == Append(SeqRemove(s, k), k)

\* The live keys of cache c by age, oldest first.
ByAge(c, touched) == SelectSeq(touched, LAMBDA k : MapHas(c.nodeMap, k))

LruInit ==
    /\ lru = LruNew
    /\ lruPrev = LruNew
    /\ lruTouched = <<>>
    /\ lruTouchedPrev = <<>>
    /\ lruOp = Op("new", Null, Null, 0)
    /\ lruRet = NoRet
    /\ lruPrevGet = Null
    /\ lruDup = FALSE

LruStep(op, c, ret, touched) ==
    /\ lru' = LruNormalize(c)
    /\ lruPrev' = lru
    /\ lruTouched' = ByAge(c, touched)
    /\ lruTouchedPrev' = lruTouched
    /\ lruOp' = op
    /\ lruRet' = ret
    /\ lruPrevGet' = IF lruOp.name = "get" /\ lruRet.found THEN lruOp.key ELSE Null
    /\ lruDup' = (lruDup \/ (op.name = "insert" /\ MapHas(lru.nodeMap, op.key)))
    /\ UNCHANGED <<gridVars, geoVars>>

CacheGet ==
    \E k \in LruKeys :
        \E r \in {LruGet(lru, k)} :
            LruStep(Op("get", k, Null, 0), r.cache,
                    [NoRet EXCEPT !.found = r.found, !.value = r.value, !.thrown = r.thrown],
                    IF MapHas(lru.nodeMap, k) THEN Touch(lruTouched, k) ELSE lruTouched)

CacheInsert ==
    \E k \in LruKeys, v \in LruValues :
        /\ Len(lru.nodes) < MaxNodes
        /\ \E c \in {LruInsert(lru, k, v)} :
              LruStep(Op("insert", k, v, 0), c, NoRet, Touch(lruTouched, k))

CacheDelete ==
    \E k \in LruKeys :
        \E c \in {LruDelete(lru, k)} :
            LruStep(Op("delete", k, Null, 0), c, NoRet, lruTouched)

CacheEvict ==
    \E n \in 0..MaxEvict :
        \E r \in {LruEvict(lru, n)} :
            LruStep(Op("evict", Null, Null, n), r.cache,
                    [NoRet EXCEPT !.evicted = r.evicted], lruTouched)

CacheClear ==
    \E c \in {LruClear(lru)} :
        LruStep(Op("clear", Null, Null, 0), c, NoRet, lruTouched)

CacheForEach ==
    /\ LruTerminates(lru)
    /\ LruStep(Op("forEach", Null, Null, 0), lru, [NoRet EXCEPT !.evicted = LruForEach(lru)],
               lruTouched)

LruNext ==
    \/ CacheGet
    \/ CacheInsert
    \/ CacheDelete
    \/ CacheEvict
    \/ CacheClear
    \/ CacheForEach


\* ------------------------------------------------------------------------
\* class VirtualGrid.  A grid state s is the record of the element's fields
\* (elementCache, visibleGridWidth, ...), of what the host holds for it
\* (connected, rectWidth, rectHeight, scrollTop, sizerHeight, children) and
\* of the log of the running handler.
\*
\* A handle (HTMLElement made by a renderer) is [id, by]: its identity and the
\* renderer whose createVirtualizedElement made it.
\* ------------------------------------------------------------------------
DebugGridRenderer == "debug"
GalleryItemRenderer == "gallery"
NullRenderer == "null"

Handle(id, by) == [id |-> id, by |-> by]

CachedHandles(c) == {c.nodes[n].value : n \in Range(c.nodeMap)}

\* The log of a handler: the event, whether virtualizeCells ran (pass) and
\* with which argument (layoutChanged); the handles live, the keys cached
\* and scrollTop when the handler started; the handles created, the
\* (handle, index) pairs assigned, the entries evicted and the handles
\* abandoned so far, in call order; whether invalidateAllItems cleared the
\* cache and the cache's size right after; whether a new renderer was
\* installed; the exception that ended the handler, "" for none; the
\* renderer handed to the itemRenderer setter, "" for the other events; the
\* viewportchanged events dispatched, in order; for each call of getCell, in
\* order, what it found and did (CallGetCell); for each index the loops of
\* virtualizeCells handed to elementCache.get, in order, the index and the
\* handle get returned (hit, <<>> for undefined); for each call of
\* assignVirtualizedElement, whether its index was a key of the cache then;
\* the styles the handles had when the handler started, and the handles
\* positioned so far with the row and column they were positioned for, in
\* call order; the renderer installed when the handler started, and the
\* renderer each abandonVirtualizedElement and each assignVirtualizedElement
\* call was made on (this.renderer at the call); for each call of
\* elementCache.insert, whether its key was a key of the cache then.
NewLog(event, live, keys, top, placed, installed) ==
    [event |-> event, pass |-> FALSE, layoutChanged |-> FALSE,
     preLive |-> live, preKeys |-> keys, preScrollTop |-> top,
     created |-> <<>>, assigned |-> <<>>, evicted |-> <<>>, abandoned |-> <<>>,
     invalidated |-> FALSE, sizeAfterClear |-> 0, swapped |-> FALSE, thrown |-> "",
     argument |-> "", notified |-> <<>>, acquired |-> <<>>,
     visited |-> <<>>, assignedCached |-> <<>>,
     prePositions |-> placed, positioned |-> <<>>,
     preRenderer |-> installed, abandonedOn |-> <<>>, assignedOn |-> <<>>,
     insertedLive |-> <<>>]

\* createVirtualizedElement(): a new object, different from every handle the
\* handler has seen.
CreateVirtualizedElement(s) ==
    LET used == {h.id : h \in s.children \cup s.log.preLive}
    IN Handle(CHOOSE i \in 1..(Cardinality(used) + 1) : i \notin used, s.renderer)

\* A faulty getCell that evicts but hands out a new element all the same, so
\* the evicted handle stays a child of the viewport (what C3 must tell from
\* the code).
\* A faulty getCell that starts recycling one handle later than the code
\* (what C35 must tell from the code).
GetCellOneLater(s) ==
    IF JsGreater(LruSize(s.elementCache), JsAdd(s.maximumCachedElementCount, 1))
    THEN LET e == LruEvict(s.elementCache, 1)
         IN IF e.evicted = <<>>
            THEN [s |-> [s EXCEPT !.elementCache = e.cache, !.log.thrown = "TypeError"],
                  cell |-> Null]
            ELSE [s |-> [s EXCEPT !.elementCache = e.cache,
                                  !.log.evicted = Append(@, e.evicted[1])],
                  cell |-> e.evicted[1].value]
    ELSE LET elem == CreateVirtualizedElement(s)
         IN [s |-> [s EXCEPT !.children = @ \cup {elem}, !.log.created = Append(@, elem)],
             cell |-> elem]

GetCellLeaking(s) ==
    LET elem == CreateVirtualizedElement(s)
        c == IF JsGreater(LruSize(s.elementCache), s.maximumCachedElementCount)
             THEN LruEvict(s.elementCache, 1).cache
             ELSE s.elementCache
    IN [s |-> [s EXCEPT !.elementCache = c, !.children = @ \cup {elem},
                        !.log.created = Append(@, elem)],
        cell |-> elem]

\* A faulty getCell that recycles as soon as the cache is at capacity (what
\* C19 must tell from the code).
GetCellAtCapacity(s) ==
    IF ~JsLess(LruSize(s.elementCache), s.maximumCachedElementCount)
       /\ LruSize(s.elementCache) > 0
    THEN LET e == LruEvict(s.elementCache, 1)
         IN IF e.evicted = <<>>
            THEN [s |-> [s EXCEPT !.elementCache = e.cache, !.log.thrown = "TypeError"],
                  cell |-> Null]
            ELSE [s |-> [s EXCEPT !.elementCache = e.cache,
                                  !.log.evicted = Append(@, e.evicted[1])],
                  cell |-> e.evicted[1].value]
    ELSE LET elem == CreateVirtualizedElement(s)
         IN [s |-> [s EXCEPT !.children = @ \cup {elem}, !.log.created = Append(@, elem)],
             cell |-> elem]

\* getCell(): [s, cell]
GetCell(s) ==
    IF JsGreater(LruSize(s.elementCache), s.maximumCachedElementCount)
    THEN LET e == LruEvict(s.elementCache, 1)
         IN IF e.evicted = <<>>
            THEN [s |-> [s EXCEPT !.elementCache = e.cache, !.log.thrown = "TypeError"],
                  cell |-> Null]
            ELSE [s |-> [s EXCEPT !.elementCache = e.cache,
                                  !.log.evicted = Append(@, e.evicted[1])],
                  cell |-> e.evicted[1].value]
    ELSE LET elem == CreateVirtualizedElement(s)
         IN [s |-> [s EXCEPT !.children = @ \cup {elem}, !.log.created = Append(@, elem)],
             cell |-> elem]

\* this.getCell() as virtualizeCells calls it, with the call logged: whether
\* size > maximumCachedElementCount held at the call, the key the walk from
\* newest ended at (the oldest entry) if any, how many entries the call
\* evicted, how many handles it created and how many children the viewport
\* gained, the lengths of log.evicted and log.created after it, the number
\* of gets the pass had made by then and the size of the cache after it.
CallGetCell(s) ==
    LET Logged(before, walk, got) ==
            [got EXCEPT !.s.log.acquired = Append(@,
                [over |-> JsGreater(LruSize(before.elementCache),
                                    before.maximumCachedElementCount),
                 oldestKey |-> IF walk = <<>> THEN <<>> ELSE <<walk[Len(walk)].key>>,
                 evicted |-> LruSize(before.elementCache) - LruSize(got.s.elementCache),
                 created |-> Len(got.s.log.created) - Len(before.log.created),
                 appended |-> Cardinality(got.s.children \ before.children),
                 removed |-> Cardinality(before.children \ got.s.children),
                 evictedSoFar |-> Len(got.s.log.evicted),
                 createdSoFar |-> Len(got.s.log.created),
                 visitedSoFar |-> Len(before.log.visited),
                 sizeAfter |-> LruSize(got.s.elementCache)])]
        Called(before) ==
            CHOOSE r \in {Logged(before, walk, got) :
                              walk \in {LruForEach(before.elementCache)},
                              got \in {GetCell(before)}} : TRUE
    IN CHOOSE r \in {Called(before) : before \in {s}} : TRUE

\* Position.absolute(cell).top(..).left(..).width(..).height(..) for row y,
\* column x, the call logged
PositionAbsolute(s, cell, y, x) ==
    [s EXCEPT !.positions = MapSet(@, cell, Positioned(s, PositionOf(@, cell), y, x)),
              !.log.positioned = Append(@, <<cell, y, x>>)]

\* virtualizeCells: if ( ! layoutChanged ) place the new element where it
\* belongs: itemIndex is y * visibleGridWidth + x of the loops, whose width
\* is finite.
PlaceUnlessLayoutChanged(s, cell, itemIndex) ==
    IF s.log.layoutChanged THEN s
    ELSE CHOOSE p \in {PositionAbsolute(v, cell, itemIndex \div v.visibleGridWidth,
                                        itemIndex % v.visibleGridWidth) : v \in {s}} : TRUE

\* A faulty second step that positions the elements that have no position
\* yet and leaves the other ones where the old layout put them (what C22
\* must tell from the code).
RepositionNew(s) ==
    LET Body(v, entries) ==
            LET Row(i) == JsFloorDiv(entries[i].key, v.visibleGridWidth)
                Col(i) == JsMod(entries[i].key, v.visibleGridWidth)
                todo == {i \in 1..Len(entries) :
                            PositionOf(v.positions, entries[i].value) = NoPosition}
                handles == {entries[i].value : i \in todo}
            IN [v EXCEPT
                   !.positions = [h \in (DOMAIN @) \cup handles |->
                       IF h \in handles
                       THEN LET i == CHOOSE i \in todo : entries[i].value = h
                            IN Positioned(v, NoPosition, Row(i), Col(i))
                       ELSE @[h]],
                   !.log.positioned = @ \o [i \in 1..Len(entries) |->
                                               <<entries[i].value, Row(i), Col(i)>>]]
        Forced(v) == CHOOSE r \in {Body(v, e) : e \in {LruForEach(v.elementCache)}} : TRUE
    IN CHOOSE r \in {Forced(v) : v \in {s}} : TRUE

\* virtualizeCells: if (layoutChanged) set all element positions again: the
\* forEach callback for the entries, newest first.  Of the calls made for
\* one element the last one whose length is a CSS length decides.
RepositionAll(s) ==
    LET Body(v, entries) ==
            LET Row(i) == JsFloorDiv(entries[i].key, v.visibleGridWidth)
                Col(i) == JsMod(entries[i].key, v.visibleGridWidth)
                handles == {entries[i].value : i \in 1..Len(entries)}
                Last(I) == CHOOSE i \in I : \A j \in I : j <= i
                Calls(h) == {i \in 1..Len(entries) : entries[i].value = h}
                TopCalls(h) == {i \in Calls(h) : IsFinite(CellTop(v, Row(i)))}
                LeftCalls(h) == {i \in Calls(h) : IsFinite(CellLeft(v, Col(i))[1])}
                Placed(h, old) ==
                    [top |-> IF TopCalls(h) = {} THEN old.top
                             ELSE CellTop(v, Row(Last(TopCalls(h)))),
                     left |-> IF LeftCalls(h) = {} THEN old.left
                              ELSE CellLeft(v, Col(Last(LeftCalls(h)))),
                     width |-> SetPx(old.width, v.cellWidth),
                     height |-> SetPx(old.height, v.cellHeight)]
            IN [v EXCEPT
                   !.positions = [h \in (DOMAIN @) \cup handles |->
                       IF h \in handles THEN Placed(h, PositionOf(@, h)) ELSE @[h]],
                   !.log.positioned = @ \o [i \in 1..Len(entries) |->
                                               <<entries[i].value, Row(i), Col(i)>>]]
        Forced(v) == CHOOSE r \in {Body(v, e) : e \in {LruForEach(v.elementCache)}} : TRUE
    IN CHOOSE r \in {Forced(v) : v \in {s}} : TRUE

\* renderer.assignVirtualizedElement(cell, itemIndex), the call logged
AssignVirtualizedElement(s, cell, itemIndex) ==
    [s EXCEPT !.log.assigned = Append(@, <<cell, itemIndex>>),
              !.log.assignedOn = Append(@, s.renderer),
              !.log.assignedCached = Append(@, MapHas(s.elementCache.nodeMap, itemIndex))]

\* elementCache.insert(itemIndex, cell) as virtualizeCells calls it, the call
\* logged
CallInsert(s, itemIndex, cell) ==
    [s EXCEPT !.log.insertedLive = Append(@, MapHas(s.elementCache.nodeMap, itemIndex)),
              !.elementCache = LruInsert(@, itemIndex, cell)]

\* elementCache.get(itemIndex) as virtualizeCells calls it, the call logged
CallGet(s, itemIndex) ==
    LET Logged(r) ==
            [s |-> [s EXCEPT !.elementCache = r.cache,
                             !.log.visited = Append(@,
                                 [index |-> itemIndex,
                                  hit |-> IF r.found THEN <<r.value>> ELSE <<>>])],
             found |-> r.found, value |-> r.value, thrown |-> r.thrown]
    IN CHOOSE l \in {Logged(r) : r \in {LruGet(s.elementCache, itemIndex)}} : TRUE

\* A faulty loop body that hands a cached handle to the renderer again (what
\* C21 must tell from the code).
VirtualizeCellReassigning(s, itemIndex) ==
    LET Body(r) ==
            IF r.thrown THEN [r.s EXCEPT !.log.thrown = "TypeError"]
            ELSE IF r.found THEN AssignVirtualizedElement(r.s, r.value, itemIndex)
            ELSE LET Assigned(got) ==
                         IF got.s.log.thrown # "" THEN got.s
                         ELSE PlaceUnlessLayoutChanged(
                                  CallInsert(AssignVirtualizedElement(got.s, got.cell, itemIndex),
                                             itemIndex, got.cell),
                                  got.cell, itemIndex)
                 IN CHOOSE a \in {Assigned(got) : got \in {CallGetCell(r.s)}} : TRUE
    IN CHOOSE b \in {Body(r) : r \in {CallGet(s, itemIndex)}} : TRUE

\* A faulty loop body that does not look the index up and takes a cell for
\* it in any case (what C32 must tell from the code).
VirtualizeCellWithoutLookup(s, itemIndex) ==
    LET Assigned(got) ==
            IF got.s.log.thrown # "" THEN got.s
            ELSE PlaceUnlessLayoutChanged(
                     CallInsert(AssignVirtualizedElement(got.s, got.cell, itemIndex),
                                itemIndex, got.cell),
                     got.cell, itemIndex)
    IN CHOOSE a \in {Assigned(got) : got \in {CallGetCell(s)}} : TRUE

\* virtualizeCells: the body of the inner loop for one itemIndex < itemCount
\* (r.s is the grid after the get).
VirtualizeCell(s, itemIndex) ==
    LET Body(r) ==
            IF r.thrown THEN [r.s EXCEPT !.log.thrown = "TypeError"]
            ELSE IF r.found THEN r.s
            ELSE LET Assigned(got) ==
                         IF got.s.log.thrown # "" THEN got.s
                         ELSE PlaceUnlessLayoutChanged(
                                  CallInsert(AssignVirtualizedElement(got.s, got.cell, itemIndex),
                                             itemIndex, got.cell),
                                  got.cell, itemIndex)
                 IN CHOOSE a \in {Assigned(got) : got \in {CallGetCell(r.s)}} : TRUE
    IN CHOOSE b \in {Body(r) : r \in {CallGet(s, itemIndex)}} : TRUE

\* virtualizeCells: the loops, over the indices they reach.
\* indices[from..to] in order, as long as nothing is thrown.
RECURSIVE VirtualizeLoop(_, _, _, _)
VirtualizeLoop(s, indices, from, to) ==
    IF from > to \/ s.log.thrown # "" THEN s
    ELSE IF from = to THEN VirtualizeCell(s, indices[from])
    ELSE LET mid == (from + to) \div 2
         IN VirtualizeLoop(VirtualizeLoop(s, indices, from, mid), indices, mid + 1, to)

\* The viewportchanged event.  GalleryPage listens for it and reads
\* detail.firstVirtualIndex (Gallery.ts:41-53); the component that dispatches
\* it is a later one than VirtualGrid.ts here, so the event is the
\* specification's: after every materialization pass, with the first
\* virtual index currently visible, or none when the collection is empty.
\* A faulty first index, that of the window and not of the visible rows
\* (what C13 must tell from it):
FirstVirtualIndexOfWindow(s) == JsMul(WindowTop(s), s.visibleGridWidth)

FirstVirtualIndex(s) == JsMul(JsFloorDiv(s.scrollTop, s.cellHeight), s.visibleGridWidth)

ViewportChangedEventData(s) ==
    IF s.virtualElementCount = 0
    THEN [present |-> FALSE, firstVirtualIndex |-> 0]
    ELSE [present |-> TRUE, firstVirtualIndex |-> FirstVirtualIndex(s)]

DispatchViewportChanged(s) ==
    [s EXCEPT !.log.notified = Append(@, ViewportChangedEventData(s))]

\* virtualizeCells(layoutChanged)
VirtualizeCells(s, layoutChanged) ==
    LET indices == WindowIndices(s)
        s1 == VirtualizeLoop([s EXCEPT !.log.pass = TRUE, !.log.layoutChanged = layoutChanged],
                             indices, 1, Len(indices))
    IN IF s1.log.thrown # "" THEN s1
       ELSE DispatchViewportChanged(IF layoutChanged THEN RepositionAll(s1) ELSE s1)

\* invalidateAllItems: the forEach callback for the entries, newest first
\* (removeChild throws NotFoundError for a node that is no child, which ends
\* the loop at the first entry whose handle is no child or was removed for
\* an earlier entry).
AbandonEach(s, entries) ==
    LET bad == {i \in 1..Len(entries) :
                   \/ entries[i].value \notin s.children
                   \/ \E j \in 1..(i - 1) : entries[j].value = entries[i].value}
        n == IF bad = {} THEN Len(entries)
             ELSE (CHOOSE i \in bad : \A j \in bad : i <= j) - 1
        done == [i \in 1..n |-> entries[i].value]
    IN [s EXCEPT !.children = @ \ Range(done),
                 !.log.abandoned = @ \o done,
                 !.log.abandonedOn = @ \o [i \in 1..n |-> s.renderer],
                 !.log.thrown = IF bad = {} THEN @ ELSE "NotFoundError"]

\* A faulty invalidateAllItems that abandons the handles and leaves them in
\* the cache (what C24 must tell from the code).
AbandonWithoutClear(s) ==
    LET s1 == AbandonEach(s, LruForEach(s.elementCache))
    IN IF s1.log.thrown # "" THEN s1
       ELSE [s1 EXCEPT !.log.invalidated = TRUE,
                       !.log.sizeAfterClear = LruSize(s1.elementCache)]

\* invalidateAllItems: forEach(removeChild, abandon), then clear()
AbandonAndClear(s) ==
    LET s1 == AbandonEach(s, LruForEach(s.elementCache))
    IN IF s1.log.thrown # "" THEN s1
       ELSE [s1 EXCEPT !.elementCache = LruClear(@),
                       !.log.invalidated = TRUE,
                       !.log.sizeAfterClear = LruSize(LruClear(s1.elementCache))]

\* invalidateAllItems(redraw)
InvalidateAllItems(s, redraw) ==
    LET s1 == AbandonAndClear(s)
    IN IF redraw /\ s1.log.thrown = "" THEN VirtualizeCells(s1, FALSE) ELSE s1

\* The host keeps scrollTop within the scrollable extent.
ClampScrollTop(top, sizer, height) == Min(top, Max(0, sizer - height))

\* viewportSizer.style.height = pixelHeight + "px" ("NaNpx" is no CSS length:
\* the assignment is ignored)
SetSizerHeight(old, pixelHeight) == IF pixelHeight = NaN THEN old ELSE pixelHeight

\* A faulty computeBounds that adds the rows that fit to the rows it had
\* (what C18 must tell from the code).
LayoutAccumulating(s) ==
    LET width == VisibleGridWidth(s.rectWidth, s.cellWidth)
        height == JsAdd(VisibleGridHeight(s.rectHeight, s.cellHeight), s.visibleGridHeight)
        rows == GridRowCount(s.virtualElementCount, width)
        sizer == SetSizerHeight(s.sizerHeight, PixelHeight(rows, s.cellHeight))
    IN [s EXCEPT !.visibleGridWidth = width,
                 !.visibleGridHeight = height,
                 !.gridRowCount = rows,
                 !.sizerHeight = sizer,
                 !.maximumCachedElementCount =
                     MaximumCachedElementCount(s.virtualElementCount, width, height),
                 !.scrollTop = ClampScrollTop(
                     ClampScrollTop(s.scrollTop, s.sizerHeight, s.rectHeight),
                     sizer, s.rectHeight)]

\* computeBounds(), up to its call of virtualizeCells: the bounds, the
\* sizer's height, the capacity. The host then lays out and keeps scrollTop
\* within the new extent.
Layout(s) ==
    LET width == VisibleGridWidth(s.rectWidth, s.cellWidth)
        height == VisibleGridHeight(s.rectHeight, s.cellHeight)
        rows == GridRowCount(s.virtualElementCount, width)
        sizer == SetSizerHeight(s.sizerHeight, PixelHeight(rows, s.cellHeight))
    IN [s EXCEPT !.visibleGridWidth = width,
                 !.visibleGridHeight = height,
                 !.gridRowCount = rows,
                 !.sizerHeight = sizer,
                 !.maximumCachedElementCount =
                     MaximumCachedElementCount(s.virtualElementCount, width, height),
                 !.scrollTop = ClampScrollTop(
                     ClampScrollTop(s.scrollTop, s.sizerHeight, s.rectHeight),
                     sizer, s.rectHeight)]

\* computeBounds()
ComputeBounds(s) == VirtualizeCells(Layout(s), TRUE)

\* connectedCallback(): the element has entered the document and has the
\* bounding rect rw x rh.
ConnectedCallback(s, rw, rh) ==
    LET s1 == ComputeBounds([s EXCEPT !.connected = TRUE, !.rectWidth = rw, !.rectHeight = rh])
    IN IF s1.log.thrown # "" THEN s1 ELSE [s1 EXCEPT !.resizeListening = TRUE]

\* A faulty disconnectedCallback that leaves the resize listener on window
\* (what C17 must tell from the code).
DisconnectedCallbackStillListening(s) ==
    [s EXCEPT !.connected = FALSE, !.rectWidth = 0, !.rectHeight = 0, !.scrollTop = 0]

\* disconnectedCallback(): the element has left the document and has no
\* layout box any more.
DisconnectedCallback(s) ==
    [s EXCEPT !.connected = FALSE, !.rectWidth = 0, !.rectHeight = 0, !.scrollTop = 0,
              !.resizeListening = FALSE]

\* onWindowResizeHandler: the window was resized, the bounding rect is rw x rh.
OnWindowResize(s, rw, rh) ==
    IF s.resizeListening
    THEN ComputeBounds([s EXCEPT !.rectWidth = rw, !.rectHeight = rh])
    ELSE s

\* viewport.onscroll: the viewport was scrolled to top.
OnScroll(s, top) == VirtualizeCells([s EXCEPT !.scrollTop = top], FALSE)

\* attributeChangedCallback(name, old, value)
AttributeChangedCallback(s, name, value) ==
    ComputeBounds(
        IF name = "cell-width" THEN [s EXCEPT !.cellWidth = ParseAttribute(value)]
        ELSE IF name = "cell-height" THEN [s EXCEPT !.cellHeight = ParseAttribute(value)]
        ELSE [s EXCEPT !.virtualElementCount = ParseAttribute(value)])

\* A faulty setter that invalidates before it looks at its argument (what
\* C12 must tell from the code).
SetItemRendererInvalidatingFirst(s, r) ==
    LET s1 == InvalidateAllItems(s, FALSE)
    IN IF s1.log.thrown # "" THEN s1
       ELSE IF r = NullRenderer THEN [s1 EXCEPT !.log.thrown = "Error"]
       ELSE IF r = s.renderer THEN s
       ELSE VirtualizeCells([s1 EXCEPT !.renderer = r, !.log.swapped = TRUE], FALSE)

\* A faulty setter that installs the renderer over the handles of the old
\* one (what C7 must tell from the code).
SetItemRendererKeeping(s, r) ==
    IF r = NullRenderer THEN [s EXCEPT !.log.thrown = "Error"]
    ELSE IF r = s.renderer THEN s
    ELSE VirtualizeCells([s EXCEPT !.renderer = r, !.log.swapped = TRUE], FALSE)

\* A faulty setter that does not look whether the renderer is the installed
\* one (what C25 must tell from the code).
SetItemRendererAlwaysSwapping(s, r) ==
    IF r = NullRenderer THEN [s EXCEPT !.log.thrown = "Error"]
    ELSE LET s1 == InvalidateAllItems(s, FALSE)
         IN IF s1.log.thrown # "" THEN s1
            ELSE VirtualizeCells([s1 EXCEPT !.renderer = r, !.log.swapped = TRUE], FALSE)

\* A faulty setter that installs the new renderer before it invalidates
\* (what C26 must tell from the code).
SetItemRendererInstallingFirst(s, r) ==
    IF r = NullRenderer THEN [s EXCEPT !.log.thrown = "Error"]
    ELSE IF r = s.renderer THEN s
    ELSE LET s1 == InvalidateAllItems([s EXCEPT !.renderer = r, !.log.swapped = TRUE], FALSE)
         IN IF s1.log.thrown # "" THEN s1 ELSE VirtualizeCells(s1, FALSE)

\* set itemRenderer(r)
SetItemRenderer(s, r) ==
    IF r = NullRenderer THEN [s EXCEPT !.log.thrown = "Error"]
    ELSE IF r = s.renderer THEN s
    ELSE LET s1 == InvalidateAllItems(s, FALSE)
         IN IF s1.log.thrown # "" THEN s1
            ELSE VirtualizeCells([s1 EXCEPT !.renderer = r, !.log.swapped = TRUE], FALSE)

\* ------------------------------------------------------------------------
\* Handle ids stand for object references and carry no meaning: when a
\* handler is done the handles are renumbered, the cached ones first in
\* recency order (newest = 1), then the other ones the handler has seen.
\* ------------------------------------------------------------------------
HandleOrder(c, others) ==
    LET cached == Dedup([i \in 1..Len(c.nodes) |-> c.nodes[i].value], {})
        rest == others \ Range(cached)
        ids == SetToSeq({h.id : h \in rest})
    IN cached \o [i \in 1..Len(ids) |-> CHOOSE h \in rest : h.id = ids[i]]

Renumbered(order, h) == Handle(CHOOSE i \in 1..Len(order) : order[i] = h, h.by)

RenumberHandles(s, c, order) ==
    [s EXCEPT
        !.elementCache = [c EXCEPT !.nodes = [i \in 1..Len(c.nodes) |->
                             [c.nodes[i] EXCEPT !.value = Renumbered(order, @)]]],
        !.children = {Renumbered(order, h) : h \in s.children},
        !.positions = [h \in {Renumbered(order, o) :
                                o \in (DOMAIN @) \cap (s.children \cup CachedHandles(c))} |->
                          @[order[h.id]]],
        !.log.prePositions = [h \in {Renumbered(order, o) :
                                        o \in (DOMAIN @) \cap Range(order)} |->
                                 @[order[h.id]]],
        !.log.positioned = [i \in 1..Len(s.log.positioned) |->
                               <<Renumbered(order, s.log.positioned[i][1]),
                                 s.log.positioned[i][2], s.log.positioned[i][3]>>],
        !.log.preLive = {Renumbered(order, h) : h \in s.log.preLive},
        !.log.created = [i \in 1..Len(s.log.created) |-> Renumbered(order, s.log.created[i])],
        !.log.assigned = [i \in 1..Len(s.log.assigned) |->
                             <<Renumbered(order, s.log.assigned[i][1]), s.log.assigned[i][2]>>],
        !.log.visited = [i \in 1..Len(s.log.visited) |->
                            [s.log.visited[i] EXCEPT !.hit =
                                [j \in 1..Len(@) |-> Renumbered(order, @[j])]]],
        !.log.evicted = [i \in 1..Len(s.log.evicted) |->
                            Evicted(s.log.evicted[i].key,
                                    Renumbered(order, s.log.evicted[i].value))],
        !.log.abandoned = [i \in 1..Len(s.log.abandoned) |->
                              Renumbered(order, s.log.abandoned[i])]]

Canonical(s) ==
    LET c == LruNormalize(s.elementCache)
    IN RenumberHandles(s, c, HandleOrder(c, s.children \cup s.log.preLive))

\* ------------------------------------------------------------------------
\* The VirtualGrid driven event by event
\* ------------------------------------------------------------------------
GridInit ==
    /\ elementCache = LruNew
    /\ visibleGridWidth = 0
    /\ visibleGridHeight = 0
    /\ gridRowCount = 0
    /\ maximumCachedElementCount = 0
    /\ renderer = DebugGridRenderer
    /\ cellWidth = 0
    /\ cellHeight = 0
    /\ virtualElementCount = 0
    /\ resizeListening = FALSE
    /\ connected = FALSE
    /\ rectWidth = 0
    /\ rectHeight = 0
    /\ scrollTop = 0
    /\ sizerHeight = 0
    /\ children = {}
    /\ positions = NoPositions
    /\ log = NewLog("new", {}, {}, 0, NoPositions, DebugGridRenderer)

\* The grid as it stands.
This ==
    [elementCache |-> elementCache, visibleGridWidth |-> visibleGridWidth,
     visibleGridHeight |-> visibleGridHeight, gridRowCount |-> gridRowCount,
     maximumCachedElementCount |-> maximumCachedElementCount, renderer |-> renderer,
     cellWidth |-> cellWidth, cellHeight |-> cellHeight,
     virtualElementCount |-> virtualElementCount, resizeListening |-> resizeListening,
     connected |-> connected, rectWidth |-> rectWidth, rectHeight |-> rectHeight,
     scrollTop |-> scrollTop, sizerHeight |-> sizerHeight, children |-> children,
     positions |-> positions, log |-> log]

\* The grid at the start of the handler of event.
Begin(event) ==
    [This EXCEPT !.log = NewLog(event, children \cup CachedHandles(elementCache),
                                DOMAIN elementCache.nodeMap, scrollTop, positions, renderer)]

\* The handler has run to its end (or to its exception) and left s.
Commit(s) ==
    /\ elementCache' = s.elementCache
    /\ visibleGridWidth' = s.visibleGridWidth
    /\ visibleGridHeight' = s.visibleGridHeight
    /\ gridRowCount' = s.gridRowCount
    /\ maximumCachedElementCount' = s.maximumCachedElementCount
    /\ renderer' = s.renderer
    /\ cellWidth' = s.cellWidth
    /\ cellHeight' = s.cellHeight
    /\ virtualElementCount' = s.virtualElementCount
    /\ resizeListening' = s.resizeListening
    /\ connected' = s.connected
    /\ rectWidth' = s.rectWidth
    /\ rectHeight' = s.rectHeight
    /\ scrollTop' = s.scrollTop
    /\ sizerHeight' = s.sizerHeight
    /\ children' = s.children
    /\ positions' = s.positions
    /\ log' = s.log
    /\ UNCHANGED <<lruVars, geoVars>>

ConnectIn(rects) ==
    /\ ~connected
    /\ \E r \in rects :
          \E s \in {Canonical(ConnectedCallback(Begin("connected"), r[1], r[2]))} : Commit(s)

Disconnect ==
    /\ connected
    /\ \E s \in {Canonical(DisconnectedCallback(Begin("disconnected")))} : Commit(s)

\* The window is resized, whether the grid is in the document or not; out of
\* the document the grid has no layout box.
ResizeIn(rects) ==
    \E r \in rects :
        \E s \in {Canonical(OnWindowResize(Begin("resize"),
                                           IF connected THEN r[1] ELSE 0,
                                           IF connected THEN r[2] ELSE 0))} : Commit(s)

ScrollIn(tops) ==
    /\ connected
    /\ \E top \in tops :
          /\ top <= Max(0, sizerHeight - rectHeight)
          /\ \E s \in {Canonical(OnScroll(Begin("scroll"), top))} : Commit(s)

SetAttributeIn(name, values) ==
    \E v \in values :
        \E s \in {Canonical(AttributeChangedCallback(Begin(name), name, v))} : Commit(s)

SetRendererIn(renderers) ==
    \E r \in renderers :
        \E s \in {Canonical(SetItemRenderer(
                    [Begin("itemRenderer") EXCEPT !.log.argument = r], r))} : Commit(s)

Invalidate ==
    \E redraw \in BOOLEAN :
        \E s \in {Canonical(InvalidateAllItems(
                    [Begin("invalidateAllItems") EXCEPT
                        !.log.argument = IF redraw THEN "true" ELSE "false"], redraw))} :
            Commit(s)

\* Inputs of the small grid: one column, two rows a page, fourteen items.
GridRects == {<<1, 1>>}
GridCellWidths == {1}
GridCellHeights == {2}
GridItemCounts == {14}
GridScrollTops == {0, 4, 14, 24}
GridRenderers == {NullRenderer, DebugGridRenderer, GalleryItemRenderer}

Connect == ConnectIn(GridRects)
Resize == ResizeIn(GridRects)
Scroll == ScrollIn(GridScrollTops)
SetCellWidth == SetAttributeIn("cell-width", GridCellWidths)
SetCellHeight == SetAttributeIn("cell-height", GridCellHeights)
SetVirtualElementCount ==
    SetAttributeIn("virtual-element-count", GridItemCounts \cup {NaN})
SetRenderer == SetRendererIn(GridRenderers)

GridNext ==
    \/ Connect
    \/ Disconnect
    \/ Resize
    \/ Scroll
    \/ SetCellWidth
    \/ SetCellHeight
    \/ SetVirtualElementCount
    \/ SetRenderer
    \/ Invalidate

\* Inputs of the gallery's grid: a 1000 x 800 viewport, 320 x 240 cells,
\* one hundred items.
ScenarioRects == {<<1000, 800>>}
ScenarioCellWidths == {320}
ScenarioCellHeights == {240}
ScenarioItemCounts == {100}
ScenarioScrollTops == {0, 2400, 7360}
ScenarioRenderers == {DebugGridRenderer, GalleryItemRenderer}

ScenarioConnect == ConnectIn(ScenarioRects)
ScenarioResize == ResizeIn(ScenarioRects)
ScenarioScroll == ScrollIn(ScenarioScrollTops)
ScenarioSetCellWidth == SetAttributeIn("cell-width", ScenarioCellWidths)
ScenarioSetCellHeight == SetAttributeIn("cell-height", ScenarioCellHeights)
ScenarioSetVirtualElementCount == SetAttributeIn("virtual-element-count", ScenarioItemCounts)
ScenarioSetRenderer == SetRendererIn(ScenarioRenderers)

ScenarioNext ==
    \/ ScenarioConnect
    \/ Disconnect
    \/ ScenarioResize
    \/ ScenarioScroll
    \/ ScenarioSetCellWidth
    \/ ScenarioSetCellHeight
    \/ ScenarioSetVirtualElementCount
    \/ ScenarioSetRenderer
    \/ Invalidate

\* Inputs of a grid whose columns leave width over: a 5 x 1 viewport, cells
\* 2 wide and 2 high, eight items; the two cell sizes can also be set to 0.
PlacementRects == {<<5, 1>>}
PlacementCellWidths == {0, 2}
PlacementCellHeights == {0, 2}
PlacementItemCounts == {8}
PlacementScrollTops == {0, 4}

PlacementConnect == ConnectIn(PlacementRects)
PlacementResize == ResizeIn(PlacementRects)
PlacementScroll == ScrollIn(PlacementScrollTops)
PlacementSetCellWidth == SetAttributeIn("cell-width", PlacementCellWidths)
PlacementSetCellHeight == SetAttributeIn("cell-height", PlacementCellHeights)
PlacementSetVirtualElementCount ==
    SetAttributeIn("virtual-element-count", PlacementItemCounts)

PlacementNext ==
    \/ PlacementConnect
    \/ Disconnect
    \/ PlacementResize
    \/ PlacementScroll
    \/ PlacementSetCellWidth
    \/ PlacementSetCellHeight
    \/ PlacementSetVirtualElementCount

\* ------------------------------------------------------------------------
\* The grid's arithmetic alone (computeBounds and the window of
\* virtualizeCells), applied to inputs drawn from small sets
\* ------------------------------------------------------------------------
GeoRectWidths == {1, 2}
GeoRectHeights == {1, 3}
GeoCellWidths == {0, 1, 2}
GeoCellHeights == {0, 1, 2}
GeoItemCounts == {0, 3, 10}

\* A grid with the attributes and the bounding rect set and no bounds
\* computed yet.
NewGeometry(rw, rh, cw, ch, count) ==
    [rectWidth |-> rw, rectHeight |-> rh, cellWidth |-> cw, cellHeight |-> ch,
     virtualElementCount |-> count, scrollTop |-> 0, sizerHeight |-> 0,
     visibleGridWidth |-> 0, visibleGridHeight |-> 0, gridRowCount |-> 0,
     maximumCachedElementCount |-> 0, computed |-> FALSE, recomputed |-> FALSE]

GeometryInit ==
    \E rw \in GeoRectWidths, rh \in GeoRectHeights, cw \in GeoCellWidths,
       ch \in GeoCellHeights, count \in GeoItemCounts :
        geometry = NewGeometry(rw, rh, cw, ch, count)

GeometryComputeBounds ==
    /\ ~geometry.computed
    /\ geometry' = [Layout(geometry) EXCEPT !.computed = TRUE]
    /\ UNCHANGED <<lruVars, gridVars>>

GeometryScroll ==
    /\ geometry.computed
    /\ \E top \in 0..Max(0, geometry.sizerHeight - geometry.rectHeight) :
          geometry' = [geometry EXCEPT !.scrollTop = top, !.recomputed = FALSE]
    /\ UNCHANGED <<lruVars, gridVars>>

\* computeBounds() once more, nothing it reads having changed.
GeometryRecompute ==
    /\ geometry.computed
    /\ ~geometry.recomputed
    /\ geometry' = [Layout(geometry) EXCEPT !.recomputed = TRUE]
    /\ UNCHANGED <<lruVars, gridVars>>

GeometryNext ==
    \/ GeometryComputeBounds
    \/ GeometryScroll
    \/ GeometryRecompute

Init == LruInit /\ GridInit /\ geometry = NewGeometry(0, 0, 0, 0, 0)

InitGeometry == LruInit /\ GridInit /\ GeometryInit

SpecLru == Init /\ [][LruNext]_vars

SpecGrid == Init /\ [][GridNext]_vars

SpecScenario == Init /\ [][ScenarioNext]_vars

SpecGeometry == InitGeometry /\ [][GeometryNext]_vars

SpecPlacement == Init /\ [][PlacementNext]_vars

\* Sanity of the grid model.
GridNoThrow == log.thrown \in {"", "Error"}
GridCacheVerified == LruVerify(elementCache)
GridFiniteLoop == ~IsFinite(visibleGridWidth) => gridRowCount \in {0, NaN}

\* Sanity: node ids in range.
LruTypeOK ==
    /\ lru.newest \in 0..Len(lru.nodes)
    /\ lru.oldest \in 0..Len(lru.nodes)
    /\ \A k \in DOMAIN lru.nodeMap : lru.nodeMap[k] \in 1..Len(lru.nodes)
    /\ Len(lru.nodes) <= MaxNodes

LruNoThrow == ~lruRet.thrown
LruNoCycle == LruTerminates(lru)
LruVerified == LruVerify(lru)

\* ------------------------------------------------------------------------
\* Claims about the Lru (specification SpecLru)
\* ------------------------------------------------------------------------
SeqKeys(s) == {s[i].key : i \in 1..Len(s)}
NoDuplicateKeys(s) == \A i, j \in 1..Len(s) : s[i].key = s[j].key => i = j

\* C1: after any sequence of get/insert/delete/evict calls from an empty
\* cache, following older-links from newest visits exactly size() nodes, ends
\* at oldest, and visits no key twice.  (Stated for the call sequences that
\* never insert a key that is already cached.)
C1_RecencyInvariant ==
    ~lruDup =>
        LET t == LruTraverse(lru)
        IN /\ LruTerminates(lru)
           /\ Len(t) = LruSize(lru)
           /\ (IF t = <<>> THEN lru.oldest = Null ELSE t[Len(t)] = lru.oldest)
           /\ NoDuplicateKeys(LruForEach(lru))

\* C5: get(k) on a cached key followed by evict(size() - 1) evicts every key
\* except k and leaves k as the only entry.
C5_GetPromotes ==
    (/\ ~lruDup
     /\ lruOp.name = "evict"
     /\ lruPrevGet # Null
     /\ lruOp.count = LruSize(lruPrev) - 1) =>
        /\ DOMAIN lru.nodeMap = {lruPrevGet}
        /\ Len(lruRet.evicted) = LruSize(lruPrev) - 1
        /\ SeqKeys(lruRet.evicted) = (DOMAIN lruPrev.nodeMap) \ {lruPrevGet}

\* C6: evict(count) removes exactly min(count, size()) entries and returns
\* them oldest first, the age of an entry being the time of its last insert
\* or get.
C6_EvictOldestFirst ==
    (~lruDup /\ lruOp.name = "evict") =>
        LET m == Min(lruOp.count, LruSize(lruPrev))
            age == ByAge(lruPrev, lruTouchedPrev)
        IN /\ Len(lruRet.evicted) = m
           /\ LruSize(lru) = LruSize(lruPrev) - m
           /\ \A i \in 1..m :
                 /\ lruRet.evicted[i].key = age[i]
                 /\ lruRet.evicted[i].value = lruPrev.nodes[lruPrev.nodeMap[age[i]]].value
           /\ DOMAIN lru.nodeMap = (DOMAIN lruPrev.nodeMap) \ {age[i] : i \in 1..m}

\* ------------------------------------------------------------------------
\* Claims about the VirtualGrid (specification SpecGrid)
\* ------------------------------------------------------------------------
Materialized == DOMAIN elementCache.nodeMap
HandleOf(k) == elementCache.nodes[elementCache.nodeMap[k]].value

\* C2: pool boundedness: over scroll-only passes with fixed geometry the
\* cache is over maximumCachedElementCount for at most the single pass that
\* creates the one extra handle, and the next eviction restores
\* size <= maximumCachedElementCount.  Stated per pass: a scroll-only pass
\* that began with at most the one extra handle, and that evicted or began
\* over capacity, ends with size <= maximumCachedElementCount.
C2_PoolBounded ==
    (/\ log.event = "scroll"
     /\ log.pass
     /\ log.thrown = ""
     /\ IsFinite(maximumCachedElementCount)
     /\ Cardinality(log.preKeys) <= maximumCachedElementCount + 1
     /\ (log.evicted # <<>> \/ Cardinality(log.preKeys) > maximumCachedElementCount)) =>
        LruSize(elementCache) <= maximumCachedElementCount

\* C3: between events each materialized index has exactly one live handle,
\* no handle is held under two indices, and the handles appended to the
\* viewport are exactly the handles held in the cache.
C3_OneHandlePerIndex ==
    LET walk == LruForEach(elementCache)
    IN /\ LruTerminates(elementCache)
       /\ SeqKeys(walk) = Materialized
       /\ NoDuplicateKeys(walk)
       /\ \A i, j \in 1..Len(walk) : walk[i].value = walk[j].value => i = j
       /\ \A i \in 1..Len(walk) : walk[i].value = HandleOf(walk[i].key)
       /\ children = CachedHandles(elementCache)

\* C3 witness: a scroll pass has recycled handles by eviction.
C3_Witness ==
    /\ log.event = "scroll"
    /\ log.evicted # <<>>
    /\ Cardinality(children) > 1

\* C4: after every materialization pass every index i with
\* topRow * columns <= i < bottomRow * columns and i < itemCount has a live
\* handle in the cache, also when the pass recycled handles by eviction.
C4_WindowMaterialized ==
    LET top == WindowTop(This)
        bottom == WindowBottom(This)
    IN (/\ log.pass
        /\ log.thrown = ""
        /\ IsFinite(top) /\ IsFinite(bottom) /\ IsFinite(visibleGridWidth)) =>
           \A i \in 0..(virtualElementCount - 1) :
               (top * visibleGridWidth <= i /\ i < bottom * visibleGridWidth) =>
                   /\ i \in Materialized
                   /\ HandleOf(i) \in children

\* C4 witness: a pass over a non-empty window has evicted.
C4_Witness ==
    /\ log.pass
    /\ log.thrown = ""
    /\ log.evicted # <<>>
    /\ WindowIndices(This) # <<>>
    /\ IsFinite(visibleGridWidth)

\* C7: after assigning a renderer that differs from the current one, every
\* handle that was live before has received exactly one abandon call, the
\* cache was emptied (size 0) before the rebuild, and the following pass has
\* repopulated the cache with exactly the indices of the current window.
C7_RendererSwap ==
    (log.event = "itemRenderer" /\ log.swapped) =>
        /\ \A h \in log.preLive :
              Cardinality({i \in 1..Len(log.abandoned) : log.abandoned[i] = h}) = 1
        /\ log.invalidated
        /\ log.sizeAfterClear = 0
        /\ log.pass
        /\ Materialized = Range(WindowIndices(This))

\* C7 witness: a swap that found live handles and rebuilt a non-empty window.
C7_Witness ==
    /\ log.event = "itemRenderer"
    /\ log.swapped
    /\ log.preLive # {}
    /\ Materialized # {}

\* ------------------------------------------------------------------------
\* Claims about the window arithmetic (specification SpecGeometry)
\* ------------------------------------------------------------------------
\* C8: for every geometry with cellWidth, cellHeight > 0 and every scrollTop
\* in [0, totalExtent - viewportHeight], 0 <= topRow, bottomRow <= totalRows
\* and the window [topRow, bottomRow) contains each of the rows
\* floor(scrollTop / cellHeight) .. ceil((scrollTop + viewportHeight) / cellHeight)
\* that is < totalRows.
C8_WindowCoverage ==
    (geometry.computed /\ geometry.cellWidth > 0 /\ geometry.cellHeight > 0) =>
        LET top == WindowTop(geometry)
            bottom == WindowBottom(geometry)
            first == geometry.scrollTop \div geometry.cellHeight
            last == (geometry.scrollTop + geometry.rectHeight + geometry.cellHeight - 1)
                        \div geometry.cellHeight
        IN /\ 0 <= top
           /\ bottom <= geometry.gridRowCount
           /\ \A r \in first..last :
                  r < geometry.gridRowCount => (top <= r /\ r < bottom)

\* C8 witness: a window strictly inside the grid, rows before and after it.
C8_Witness ==
    /\ geometry.computed
    /\ geometry.cellWidth > 0
    /\ geometry.cellHeight > 0
    /\ WindowTop(geometry) > 0
    /\ WindowBottom(geometry) < geometry.gridRowCount

\* ------------------------------------------------------------------------
\* Claims about the end-to-end scenario (specification SpecScenario)
\* ------------------------------------------------------------------------
ScenarioConfigured ==
    /\ connected
    /\ rectWidth = 1000
    /\ rectHeight = 800
    /\ cellWidth = 320
    /\ cellHeight = 240
    /\ virtualElementCount = 100

\* The first pass of the configured grid, at scrollTop 0 with nothing cached.
ScenarioInitial ==
    /\ ScenarioConfigured
    /\ scrollTop = 0
    /\ log.pass
    /\ log.thrown = ""
    /\ log.preKeys = {}

\* The pass of a scroll of the configured grid from scrollTop 0 to 2400.
ScenarioScrolled ==
    /\ ScenarioConfigured
    /\ log.event = "scroll"
    /\ log.thrown = ""
    /\ log.preScrollTop = 0
    /\ scrollTop = 2400

\* C9 as the code has it: with viewport 1000x800, cellWidth 320, cellHeight
\* 240 and 100 items the grid computes columns = 3, visibleRows = 5,
\* totalRows = 34, and at scrollTop 0 the window is rows [0,9), so exactly
\* the indices 0..26 are materialized.
C9_ScenarioInitial ==
    ScenarioInitial =>
        /\ visibleGridWidth = 3
        /\ visibleGridHeight = 5
        /\ gridRowCount = 34
        /\ WindowTop(This) = 0
        /\ WindowBottom(This) = 9
        /\ Materialized = 0..26

\* C9 as stated: columns = 3, visibleRows = 5, totalRows = 34, and at
\* scrollTop 0 the window is rows [0,7), so exactly the indices 0..20 are
\* materialized.
C9_AsStated ==
    ScenarioInitial =>
        /\ visibleGridWidth = 3
        /\ visibleGridHeight = 5
        /\ gridRowCount = 34
        /\ WindowTop(This) = 0
        /\ WindowBottom(This) = 7
        /\ Materialized = 0..20

\* C9 witness: the configured grid right after its first pass.
C9_Witness == ScenarioInitial /\ Materialized # {}

\* C10 as the code has it: in the same configuration, scrolling from
\* scrollTop 0 to scrollTop 2400 shifts the window to rows [5,19), and the
\* indices of those rows are materialized.
C10_ScenarioScroll ==
    ScenarioScrolled =>
        /\ WindowTop(This) = 5
        /\ WindowBottom(This) = 19
        /\ (15..56) \subseteq Materialized

\* C10 as stated: scrolling from scrollTop 0 to scrollTop 2400 shifts the
\* window to rows [5,17).
C10_AsStated ==
    ScenarioScrolled =>
        /\ WindowTop(This) = 5
        /\ WindowBottom(This) = 17

\* C10 witness: the configured grid right after the scroll from 0 to 2400.
C10_Witness == ScenarioScrolled /\ log.pass /\ log.assigned # <<>>

\* C11: in the 1000x800 / 320 / 240 / 100-item configuration the scroll-only
\* pass from scrollTop 0 to scrollTop 2400 evicts no entry: every index
\* materialized at scrollTop 0 is still cached after the pass.
C11_ScenarioNoEviction ==
    (ScenarioScrolled /\ log.pass /\ log.preKeys = 0..26) =>
        /\ log.evicted = <<>>
        /\ (0..26) \subseteq Materialized
        /\ \A i \in 0..26 : HandleOf(i) \in log.preLive

\* C11 witness: the scroll from 0 to 2400 of the grid that held exactly the
\* indices of its first pass, with new handles created for the new rows.
C11_Witness ==
    /\ ScenarioScrolled
    /\ log.pass
    /\ log.preKeys = 0..26
    /\ log.created # <<>>

\* The fields of the grid and what the host holds for it, without the log.
GridFields ==
    <<elementCache, visibleGridWidth, visibleGridHeight, gridRowCount,
      maximumCachedElementCount, renderer, cellWidth, cellHeight, virtualElementCount,
      resizeListening, connected, rectWidth, rectHeight, scrollTop, sizerHeight, children>>

\* C12: assigning a null/undefined renderer raises an error and changes
\* nothing: the installed renderer, the cache contents and the live handles
\* are unchanged, no abandon/create/assign call is made and no pass runs.
C12_NullRendererRejected ==
    [][(log'.event = "itemRenderer" /\ log'.argument = NullRenderer) =>
          /\ log'.thrown = "Error"
          /\ UNCHANGED GridFields
          /\ log'.created = <<>>
          /\ log'.assigned = <<>>
          /\ log'.abandoned = <<>>
          /\ log'.evicted = <<>>
          /\ ~log'.invalidated
          /\ ~log'.pass]_vars

\* C12 witness: a null renderer was assigned to a grid that holds handles.
C12_Witness ==
    /\ log.event = "itemRenderer"
    /\ log.argument = NullRenderer
    /\ log.thrown = "Error"
    /\ Materialized # {}

C14_EndsNullIffEmpty ==
    ~lruDup =>
        IF LruSize(lru) > 0
        THEN lru.newest # Null /\ lru.oldest # Null
        ELSE lru.newest = Null /\ lru.oldest = Null

\* ------------------------------------------------------------------------
\* Further claims about the VirtualGrid (specifications SpecGrid, SpecScenario)
\* ------------------------------------------------------------------------
\* C15: between events, for any sequence of scroll, resize and
\* configuration-change events (also ones that lower the capacity), the
\* handles retained are at most six pages' worth under the current geometry:
\* Cache.size() <= min(itemCount, columns * visibleRows * 6) + 1.
C15_SixPagesRetained ==
    LET capacity == JsMin(virtualElementCount,
                          JsMul(visibleGridWidth, JsMul(visibleGridHeight, 6)))
    IN IsFinite(capacity) => LruSize(elementCache) <= capacity + 1

\* C16: out-of-range indices are a silent no-op: a pass never acquires,
\* assigns or inserts a handle for an index >= itemCount, also when the
\* padded window [topRow * columns, bottomRow * columns) extends past the end
\* of the collection, and no error is raised.
C16_OutOfRangeNoOp ==
    log.pass =>
        /\ log.thrown = ""
        /\ \A i \in 1..Len(log.assigned) : log.assigned[i][2] < virtualElementCount
        /\ Len(log.created) + Len(log.evicted) = Len(log.assigned)
        /\ Materialized \ (IF log.invalidated THEN {} ELSE log.preKeys)
              \subseteq {log.assigned[i][2] : i \in 1..Len(log.assigned)}

\* C16 witness: a pass has assigned handles in a window whose last row
\* extends past the end of the collection.
C16_Witness ==
    /\ log.pass
    /\ log.assigned # <<>>
    /\ IsFinite(visibleGridWidth)
    /\ IsFinite(WindowBottom(This))
    /\ WindowBottom(This) * visibleGridWidth > virtualElementCount

C18_GeometryIdempotent ==
    [][(geometry.computed /\ ~geometry.recomputed /\ geometry'.recomputed) =>
          /\ geometry'.rectWidth = geometry.rectWidth
          /\ geometry'.rectHeight = geometry.rectHeight
          /\ geometry'.scrollTop = geometry.scrollTop
          /\ geometry'.visibleGridWidth = geometry.visibleGridWidth
          /\ geometry'.visibleGridHeight = geometry.visibleGridHeight
          /\ geometry'.gridRowCount = geometry.gridRowCount
          /\ geometry'.maximumCachedElementCount = geometry.maximumCachedElementCount
          /\ WindowTop(geometry') = WindowTop(geometry)
          /\ WindowBottom(geometry') = WindowBottom(geometry)]_vars

\* C18 witness: a grid with rows, scrolled, whose geometry was computed a
\* second time.
C18_Witness ==
    /\ geometry.recomputed
    /\ geometry.scrollTop > 0
    /\ geometry.gridRowCount > 0

\* ------------------------------------------------------------------------
\* Claims about getCell (specification SpecGrid)
\* ------------------------------------------------------------------------
\* C19: getCell: iff size() > maximumCachedElementCount at the call it evicts
\* exactly one entry, the oldest, and returns that entry's handle without
\* creating a handle; otherwise it creates exactly one new handle through the
\* renderer, appends it to the viewport and evicts nothing.  (The handle a
\* call returns is the one virtualizeCells assigns next.)
C19_GetCell ==
    log.thrown = "" =>
        /\ Len(log.acquired) = Len(log.assigned)
        /\ \A i \in 1..Len(log.acquired) :
              LET a == log.acquired[i]
              IN IF a.over
                 THEN /\ a.evicted = 1
                      /\ a.created = 0
                      /\ a.appended = 0
                      /\ a.removed = 0
                      /\ a.oldestKey = <<log.evicted[a.evictedSoFar].key>>
                      /\ log.assigned[i][1] = log.evicted[a.evictedSoFar].value
                 ELSE /\ a.evicted = 0
                      /\ a.created = 1
                      /\ a.appended = 1
                      /\ a.removed = 0
                      /\ log.assigned[i][1] = log.created[a.createdSoFar]
                      /\ log.assigned[i][1] \notin log.preLive
                      /\ log.assigned[i][1].by = renderer

\* C19 witness: one pass in which getCell both created and recycled.
C19_Witness ==
    /\ log.thrown = ""
    /\ \E i \in 1..Len(log.acquired) : log.acquired[i].over
    /\ \E i \in 1..Len(log.acquired) : ~log.acquired[i].over

\* ------------------------------------------------------------------------
\* Claims about evict emptying the cache (specification SpecLru)
\* ------------------------------------------------------------------------
\* C20: evict(count) with count >= size() leaves a cache that behaves like a
\* freshly constructed one: size() = 0, forEach visits nothing, and a
\* following insert(k, v) yields size() = 1, forEach visiting exactly (k, v)
\* and evict(1) returning exactly [(k, v)].  (Stated for the call sequences
\* that never insert a key that is already cached.)
C20_EvictAllLikeFresh ==
    (~lruDup /\ lruOp.name = "evict" /\ lruOp.count >= LruSize(lruPrev)) =>
        /\ LruSize(lru) = 0
        /\ LruForEach(lru) = <<>>
        /\ \A k \in LruKeys, v \in LruValues :
              LET c == LruInsert(lru, k, v)
              IN /\ LruSize(c) = 1
                 /\ LruForEach(c) = <<Evicted(k, v)>>
                 /\ LruEvict(c, 1).evicted = <<Evicted(k, v)>>

\* ------------------------------------------------------------------------
\* Claims about the loop of a materialization pass (specification SpecGrid)
\* ------------------------------------------------------------------------
\* The calls of assignVirtualizedElement that the misses among the first n
\* gets of the pass were followed by: one for each miss.
MissesUpTo(n) == Cardinality({i \in 1..n : log.visited[i].hit = <<>>})

\* The handle getCell returned at its i-th call of the pass.
AcquiredHandle(i) ==
    IF log.acquired[i].over
    THEN log.evicted[log.acquired[i].evictedSoFar].value
    ELSE log.created[log.acquired[i].createdSoFar]

\* C21: in a materialization pass, an index that get finds in the cache is
\* left untouched: no create or assign call is made for it and the same
\* handle is under that index when the pass is over; for each in-range index
\* of the window that get does not find, assignVirtualizedElement is called
\* exactly once, with the handle getCell returned and that index, before the
\* handle is inserted under the index (the index is no key of the cache at
\* the call, and is cached under that handle afterwards).
C21_PassLeavesHitsAssignsMisses ==
    (log.pass /\ log.thrown = "") =>
        /\ Len(log.assigned) = MissesUpTo(Len(log.visited))
        /\ Len(log.acquired) = Len(log.assigned)
        /\ Len(log.assignedCached) = Len(log.assigned)
        /\ Len(log.created) <= Len(log.assigned)
        /\ \A i \in 1..Len(log.visited) :
              LET v == log.visited[i]
              IN /\ JsLess(v.index, virtualElementCount)
                 /\ \A j \in 1..Len(log.visited) : log.visited[j].index = v.index => j = i
                 /\ v.index \in Materialized
                 /\ IF v.hit # <<>>
                    THEN /\ \A j \in 1..Len(log.assigned) : log.assigned[j][2] # v.index
                         /\ HandleOf(v.index) = v.hit[1]
                         /\ v.hit[1] \notin Range(log.created)
                    ELSE LET j == MissesUpTo(i)
                         IN /\ log.assigned[j] = <<AcquiredHandle(j), v.index>>
                            /\ ~log.assignedCached[j]
                            /\ HandleOf(v.index) = AcquiredHandle(j)

\* C21 witness: a pass that found some of its indices cached and others not.
C21_Witness ==
    /\ log.pass
    /\ log.thrown = ""
    /\ \E i \in 1..Len(log.visited) : log.visited[i].hit # <<>>
    /\ \E i \in 1..Len(log.visited) : log.visited[i].hit = <<>>

\* ------------------------------------------------------------------------
\* Claims about the positions of the handles (specification SpecPlacement)
\* ------------------------------------------------------------------------
\* The position of index k under the geometry as it stands:
\* top = floor(k / columns) * cellHeight and
\* left = horizontalPadding + (k mod columns) * (horizontalPadding + cellWidth)
\* with horizontalPadding = max(0, (width - cellWidth * columns) / (columns + 1)),
\* the fractions compared by cross-multiplication.
PlacedAtIndex(h, k) ==
    LET columns == visibleGridWidth
        leftover == Max(0, rectWidth - cellWidth * columns)
    IN /\ h \in DOMAIN positions
       /\ IsFinite(columns)
       /\ positions[h].top = (k \div columns) * cellHeight
       /\ positions[h].left[1] * (columns + 1) =
              positions[h].left[2] * (leftover + (k % columns) * (leftover + cellWidth * (columns + 1)))

\* Every live handle is at the position of its index, and no two live
\* handles are at the same position.
AllPlaced ==
    /\ \A h \in children : \E k \in Materialized : HandleOf(k) = h /\ PlacedAtIndex(h, k)
    /\ \A h1, h2 \in children :
          h1 # h2 => <<positions[h1].top, positions[h1].left>> #
                     <<positions[h2].top, positions[h2].left>>

LayoutChangedPass == log.pass /\ log.layoutChanged /\ log.thrown = ""

ScrollOnlyPass == log.pass /\ ~log.layoutChanged /\ log.thrown = ""

\* C23: a scroll-only pass positions exactly the handles it acquired in that
\* pass, one positioning call for each in the order they were acquired, each
\* at the top and left of its index, and leaves the style of every other
\* live handle as it was.
C23_ScrollPositionsAcquired ==
    ScrollOnlyPass =>
        /\ Len(log.positioned) = Len(log.assigned)
        /\ \A i \in 1..Len(log.assigned) :
              /\ log.positioned[i][1] = log.assigned[i][1]
              /\ log.assigned[i][1] \in children
              /\ PlacedAtIndex(log.assigned[i][1], log.assigned[i][2])
        /\ \A h \in children \ {log.assigned[i][1] : i \in 1..Len(log.assigned)} :
              /\ h \in DOMAIN log.prePositions
              /\ h \in DOMAIN positions
              /\ positions[h] = log.prePositions[h]

\* C23 witness: a scroll-only pass that acquired a handle for a cell of the
\* second column while another positioned handle was live.
C23_Witness ==
    /\ ScrollOnlyPass
    /\ \E i \in 1..Len(log.assigned) : log.assigned[i][2] % visibleGridWidth = 1
    /\ \E h \in children \ {log.assigned[i][1] : i \in 1..Len(log.assigned)} :
          /\ h \in DOMAIN positions
          /\ positions[h].top # Unset

\* ------------------------------------------------------------------------
\* Claims about invalidation and the renderer (specification SpecGrid)
\* ------------------------------------------------------------------------
\* C24: invalidateAllItems(redraw): every live handle is removed from the
\* viewport and abandoned exactly once, and the cache becomes empty; with
\* redraw = false no create or assign call follows and the cache stays
\* empty; with redraw = true one scroll-only pass follows (each index of the
\* window is looked up once), after which the cache holds exactly the
\* in-range indices of the current window.
C24_InvalidateAllItems ==
    (log.event = "invalidateAllItems" /\ log.thrown = "") =>
        /\ Range(log.abandoned) = log.preLive
        /\ Len(log.abandoned) = Cardinality(log.preLive)
        /\ children \cap log.preLive = {}
        /\ log.invalidated
        /\ log.sizeAfterClear = 0
        /\ IF log.argument = "false"
           THEN /\ ~log.pass
                /\ log.created = <<>>
                /\ log.assigned = <<>>
                /\ LruSize(elementCache) = 0
                /\ Materialized = {}
                /\ children = {}
           ELSE /\ log.pass
                /\ ~log.layoutChanged
                /\ [i \in 1..Len(log.visited) |-> log.visited[i].index] = WindowIndices(This)
                /\ Materialized = Range(WindowIndices(This))
                /\ LruSize(elementCache) = Len(WindowIndices(This))

\* C24 witness: invalidateAllItems(true) that found live handles and rebuilt
\* a non-empty window.
C24_Witness ==
    /\ log.event = "invalidateAllItems"
    /\ log.thrown = ""
    /\ log.argument = "true"
    /\ log.preLive # {}
    /\ Materialized # {}

\* C25: assigning the renderer that is already installed is a no-op: no
\* handle is abandoned, created or assigned, no pass runs, and the cache (its
\* contents and recency order), the children of the viewport, their
\* positions and every field of the grid are as they were.
C25_SameRendererNoOp ==
    [][(log'.event = "itemRenderer" /\ log'.argument = renderer) =>
          /\ log'.thrown = ""
          /\ log'.abandoned = <<>>
          /\ log'.created = <<>>
          /\ log'.assigned = <<>>
          /\ log'.evicted = <<>>
          /\ log'.positioned = <<>>
          /\ ~log'.pass
          /\ ~log'.invalidated
          /\ ~log'.swapped
          /\ elementCache' = elementCache
          /\ LruForEach(elementCache') = LruForEach(elementCache)
          /\ children' = children
          /\ positions' = positions
          /\ renderer' = renderer
          /\ UNCHANGED GridFields]_vars

\* C25 witness: the installed renderer was assigned again while handles were
\* live.
C25_Witness ==
    /\ log.event = "itemRenderer"
    /\ log.argument = renderer
    /\ ~log.swapped
    /\ children # {}
    /\ Materialized # {}

\* C26: during a renderer swap every abandon call is made on the old
\* renderer (before the new one is installed: the calls go to this.renderer),
\* every create and assign call of the rebuilding pass is made on the new
\* renderer, and no handle created by the old renderer is live after the
\* swap.
C26_SwapOrder ==
    (log.event = "itemRenderer" /\ log.swapped /\ log.thrown = "") =>
        /\ renderer = log.argument
        /\ renderer # log.preRenderer
        /\ Len(log.abandonedOn) = Len(log.abandoned)
        /\ \A i \in 1..Len(log.abandonedOn) : log.abandonedOn[i] = log.preRenderer
        /\ Len(log.assignedOn) = Len(log.assigned)
        /\ \A i \in 1..Len(log.assignedOn) : log.assignedOn[i] = renderer
        /\ \A i \in 1..Len(log.created) : log.created[i].by = renderer
        /\ \A h \in children \cup CachedHandles(elementCache) : h.by # log.preRenderer

\* C26 witness: a swap that abandoned handles of the old renderer and had
\* the new one create and assign handles.
C26_Witness ==
    /\ log.event = "itemRenderer"
    /\ log.swapped
    /\ log.thrown = ""
    /\ log.abandoned # <<>>
    /\ log.created # <<>>
    /\ log.assigned # <<>>

\* ------------------------------------------------------------------------
\* Further claims about the Lru (specification SpecLru)
\* ------------------------------------------------------------------------
\* How often key k is visited by a traversal that hands over entries.
Visits(entries, k) == Cardinality({i \in 1..Len(entries) : entries[i].key = k})

LiveEntries(c) ==
    LET live == SelectSeq(LruTraverse(c),
                          LAMBDA n : MapGet(c.nodeMap, c.nodes[n].key) = n)
    IN [i \in 1..Len(live) |-> Evicted(c.nodes[live[i]].key, c.nodes[live[i]].value)]

\* C28: get(k) on a present key returns its value and moves k to the newest
\* end, preserving the relative recency order of all other entries and the
\* size; when k is already newest the order is unchanged; get on an absent
\* key returns absent and changes nothing.  (Stated for the call sequences
\* that never insert a key that is already cached.)
C28_Get ==
    (~lruDup /\ lruOp.name = "get") =>
        IF MapHas(lruPrev.nodeMap, lruOp.key)
        THEN LET before == LiveEntries(lruPrev)
                 entry == Evicted(lruOp.key, lruPrev.nodes[lruPrev.nodeMap[lruOp.key]].value)
             IN /\ ~lruRet.thrown
                /\ lruRet.found
                /\ lruRet.value = entry.value
                /\ DOMAIN lru.nodeMap = DOMAIN lruPrev.nodeMap
                /\ LruSize(lru) = LruSize(lruPrev)
                /\ LiveEntries(lru) =
                       <<entry>> \o SelectSeq(before, LAMBDA e : e.key # lruOp.key)
                /\ before[1].key = lruOp.key => lru = lruPrev
                /\ LruVerify(lruPrev) => LruVerify(lru)
        ELSE /\ ~lruRet.found
             /\ ~lruRet.thrown
             /\ lru = lruPrev

\* C28 witness: get of the oldest of three entries of a verified cache.
C28_Witness ==
    /\ ~lruDup
    /\ lruOp.name = "get"
    /\ LruVerify(lruPrev)
    /\ LruSize(lruPrev) = 3
    /\ lruPrev.oldest # Null
    /\ lruPrev.nodes[lruPrev.oldest].key = lruOp.key

\* C29: delete(k) on a present key removes exactly k (the size decreases by
\* one, get(k) is absent afterwards), preserves the relative recency order
\* of the remaining entries, and updates newest/oldest when k was an
\* endpoint: afterwards newest and oldest are the first and the last of the
\* remaining entries, and both null when none remains; delete on an absent
\* key changes nothing.  (Stated for the call sequences that never insert a
\* key that is already cached.)
C29_Delete ==
    (~lruDup /\ lruOp.name = "delete") =>
        IF MapHas(lruPrev.nodeMap, lruOp.key)
        THEN LET rest == LiveEntries(lru)
             IN /\ LruSize(lru) = LruSize(lruPrev) - 1
                /\ DOMAIN lru.nodeMap = (DOMAIN lruPrev.nodeMap) \ {lruOp.key}
                /\ ~LruGet(lru, lruOp.key).found
                /\ rest = SelectSeq(LiveEntries(lruPrev), LAMBDA e : e.key # lruOp.key)
                /\ IF LruSize(lru) = 0
                   THEN lru.newest = Null /\ lru.oldest = Null
                   ELSE /\ lru.newest # Null
                        /\ lru.oldest # Null
                        /\ lru.newest = lru.nodeMap[rest[1].key]
                        /\ lru.oldest = lru.nodeMap[rest[Len(rest)].key]
        ELSE lru = lruPrev

\* C30: after any sequence of get/insert/delete/evict/clear calls, forEach
\* visits every live entry exactly once in newest-to-oldest order (the age
\* of an entry being the time of its last insert or get), visits no entry
\* that was evicted, deleted or cleared, and leaves the recency order
\* unchanged.  (Stated for the call sequences that never insert a key that
\* is already cached.)
C30_ForEach ==
    ~lruDup =>
        LET visited == LruForEach(lru)
            age == ByAge(lru, lruTouched)
        IN /\ LruTerminates(lru)
           /\ Len(visited) = LruSize(lru)
           /\ \A i \in 1..Len(visited) :
                 /\ MapHas(lru.nodeMap, visited[i].key)
                 /\ visited[i].value = lru.nodes[lru.nodeMap[visited[i].key]].value
                 /\ i <= Len(age) => visited[i].key = age[Len(age) + 1 - i]
           /\ lruOp.name = "forEach" =>
                 /\ lruRet.evicted = LruForEach(lruPrev)
                 /\ lru = lruPrev

\* ------------------------------------------------------------------------
\* Claims about the passes of the controller (specifications SpecGrid,
\* SpecPlacement)
\* ------------------------------------------------------------------------
\* The number of iterations the two for loops of virtualizeCells make for
\* the grid as it stands, when both loops end: (bottomRow - topRow) * columns.
LoopIterations ==
    Max(0, WindowBottom(This) - WindowTop(This)) * visibleGridWidth

\* C31: every materialization pass terminates: with cellWidth > 0 and
\* cellHeight > 0 the bounds of both loops are finite, and the pass looks up
\* at most (bottomRow - topRow) * columns indices and makes at most that many
\* getCell calls before it finishes, without an exception.
C31_PassTerminates ==
    (log.pass /\ cellWidth > 0 /\ cellHeight > 0) =>
        /\ log.thrown = ""
        /\ IsFinite(WindowTop(This))
        /\ IsFinite(WindowBottom(This))
        /\ IsFinite(visibleGridWidth)
        /\ Len(log.visited) <= LoopIterations
        /\ Len(log.acquired) <= LoopIterations
        /\ Len(log.acquired) <= Len(log.visited)

\* C31 witness: a pass that looked up an index in every iteration of its
\* loops and called getCell for some of them.
C31_Witness ==
    /\ log.pass
    /\ cellWidth > 0
    /\ cellHeight > 0
    /\ log.acquired # <<>>
    /\ IsFinite(WindowTop(This))
    /\ IsFinite(WindowBottom(This))
    /\ Len(log.visited) = LoopIterations
    /\ Len(log.acquired) < Len(log.visited)

\* C32: the controller never violates the precondition of insert: in any
\* sequence of attach, scroll, resize, configuration change, renderer swap
\* and invalidateAllItems events, insert is never called for a key that is
\* in the cache at the call, and the recency list never holds a key twice.
C32_InsertOnlyAbsentKeys ==
    /\ \A i \in 1..Len(log.insertedLive) : ~log.insertedLive[i]
    /\ Len(log.insertedLive) = Len(log.assigned)
    /\ NoDuplicateKeys(LruForEach(elementCache))
    /\ Len(LruForEach(elementCache)) = LruSize(elementCache)

\* C32 witness: a pass that found some of its indices in the cache and
\* inserted others.
C32_Witness ==
    /\ log.pass
    /\ log.insertedLive # <<>>
    /\ \E i \in 1..Len(log.visited) : log.visited[i].hit # <<>>
    /\ log.evicted # <<>>

\* C33: during a materialization pass the entry getCell evicts is never an
\* index that was hit or inserted earlier in the same pass (an index the
\* pass has looked up before the call), and the eviction never empties the
\* cache.
C33_EvictsUnconfirmedOnly ==
    log.thrown = "" =>
        \A i \in 1..Len(log.acquired) :
            LET a == log.acquired[i]
            IN a.over =>
                  /\ a.evictedSoFar \in 1..Len(log.evicted)
                  /\ a.visitedSoFar \in 1..Len(log.visited)
                  /\ \A j \in 1..a.visitedSoFar :
                        log.visited[j].index # log.evicted[a.evictedSoFar].key
                  /\ a.sizeAfter >= 1

\* C33 witness: a pass evicted an entry after it had hit another one.
C33_Witness ==
    /\ log.thrown = ""
    /\ \E i \in 1..Len(log.acquired) :
          /\ log.acquired[i].over
          /\ \E j \in 1..(log.acquired[i].visitedSoFar - 1) : log.visited[j].hit # <<>>

\* ------------------------------------------------------------------------
\* Claims about the capacity (specifications SpecGeometry, SpecGrid)
\* ------------------------------------------------------------------------
\* C34: for every geometry computed by computeBounds with cellWidth > 0 and
\* cellHeight > 0 and every scrollTop, the number of in-range indices of the
\* materialization window is at most maximumCachedElementCount: the capacity
\* holds one full window.
C34_CapacityHoldsWindow ==
    (geometry.computed /\ geometry.cellWidth > 0 /\ geometry.cellHeight > 0) =>
        /\ IsFinite(geometry.maximumCachedElementCount)
        /\ Len(WindowIndices(geometry)) <= geometry.maximumCachedElementCount
        /\ Cardinality({i \in 0..(geometry.virtualElementCount - 1) :
                           /\ WindowTop(geometry) * geometry.visibleGridWidth <= i
                           /\ i < WindowBottom(geometry) * geometry.visibleGridWidth})
              <= geometry.maximumCachedElementCount

\* C34 witness: a scrolled grid whose window is a part of the collection
\* and spans more than two pages.
C34_Witness ==
    /\ geometry.computed
    /\ geometry.cellWidth > 0
    /\ geometry.cellHeight > 0
    /\ geometry.scrollTop > 0
    /\ Len(WindowIndices(geometry)) < geometry.virtualElementCount
    /\ Len(WindowIndices(geometry)) >
           2 * geometry.visibleGridWidth * geometry.visibleGridHeight

\* C35: with fixed geometry and starting from an empty cache, after any
\* sequence of scroll-only passes Cache.size() is at most
\* maximumCachedElementCount + 1 and at most maximumCachedElementCount + 1
\* handles were ever created.  Stated inductively over the passes: a pass that
\* begins on an empty cache, and a scroll-only pass (which leaves the
\* geometry as it is) that begins with at most maximumCachedElementCount + 1
\* entries and handles, ends with at most that many entries and handles, and
\* every handle in existence is the handle of an entry.
C35_HandlesBounded ==
    (/\ log.pass
     /\ log.thrown = ""
     /\ IsFinite(maximumCachedElementCount)
     /\ \/ log.preKeys = {} /\ log.preLive = {}
        \/ /\ log.event = "scroll"
           /\ Cardinality(log.preKeys) <= maximumCachedElementCount + 1
           /\ Cardinality(log.preLive) <= maximumCachedElementCount + 1) =>
        /\ LruSize(elementCache) <= maximumCachedElementCount + 1
        /\ Cardinality(children) <= maximumCachedElementCount + 1
        /\ Cardinality(log.preLive) + Len(log.created) <= maximumCachedElementCount + 1
        /\ children = CachedHandles(elementCache)

\* C35 witness: a scroll-only pass that began at the capacity has created
\* the one extra handle and then recycled.
C35_Witness ==
    /\ log.event = "scroll"
    /\ log.pass
    /\ log.thrown = ""
    /\ IsFinite(maximumCachedElementCount)
    /\ Cardinality(log.preLive) < maximumCachedElementCount + 1
    /\ log.created # <<>>
    /\ log.evicted # <<>>
    /\ Cardinality(children) = maximumCachedElementCount + 1
    /\ LruSize(elementCache) = maximumCachedElementCount + 1

\* C36: a scroll-only pass is idempotent: the pass of a scroll event that
\* follows a scroll-only pass at the same scrollTop (and, a scroll event
\* changing none of it, the same geometry) makes no create, assign or
\* abandon call, evicts and inserts nothing, and leaves the cache's key set,
\* the handle under each key and the recency order as they were.
C36_ScrollPassIdempotent ==
    [][(/\ ScrollOnlyPass
        /\ log'.event = "scroll"
        /\ scrollTop' = scrollTop) =>
          /\ log'.pass
          /\ log'.thrown = ""
          /\ log'.created = <<>>
          /\ log'.assigned = <<>>
          /\ log'.abandoned = <<>>
          /\ log'.evicted = <<>>
          /\ log'.insertedLive = <<>>
          /\ \A i \in 1..Len(log'.visited) : log'.visited[i].hit # <<>>
          /\ DOMAIN elementCache'.nodeMap = Materialized
          /\ \A k \in Materialized :
                elementCache'.nodes[elementCache'.nodeMap[k]].value = HandleOf(k)
          /\ LruForEach(elementCache') = LruForEach(elementCache)
          /\ children' = children
          /\ positions' = positions
          /\ UNCHANGED GridFields]_vars

\* C36 witness: a scroll pass at the scrollTop of the pass before it has
\* looked up a window that is a part of the cache and found every index.
C36_Witness ==
    /\ log.event = "scroll"
    /\ log.pass
    /\ log.thrown = ""
    /\ log.preScrollTop = scrollTop
    /\ scrollTop > 0
    /\ log.visited # <<>>
    /\ \A i \in 1..Len(log.visited) : log.visited[i].hit # <<>>
    /\ Len(log.visited) < LruSize(elementCache)
    /\ log.preKeys = Materialized
    /\ log.created = <<>>

\* C37: after every event every index held in the cache is < itemCount (no
\* live handle shows an item beyond the end of the collection), also after
\* itemCount was lowered by a configuration change without
\* invalidateAllItems.
C37_CachedInRange ==
    \A k \in Materialized : JsLess(k, virtualElementCount)

====
